---------------------------- MODULE Spec2Model ----------------------------
(***************************************************************************)
(* A model of hakaboom/minicap-socket: the bridge (adb) client of          *)
(* src/core/adb.py (class _ADB), the older cached client of src/adb.py     *)
(* (class ADB) and the minicap capture parser of src/adb.py                *)
(* (_Minicap.screencap).                                                   *)
(*                                                                         *)
(* Python values: None is the string NoneV, an exception is named by the   *)
(* string of its class, "None" meaning that nothing was raised.  List      *)
(* indices are Python's (0-based); PyAt reads a sequence the way Python    *)
(* reads a list.                                                           *)
(*                                                                         *)
(* The module holds one specification per subsystem (SpecForward,          *)
(* SpecCached, SpecCmd, SpecShell, SpecCap); each leaves the variables of  *)
(* the other subsystems at their idle value.                               *)
(***************************************************************************)
EXTENDS Integers, Sequences, FiniteSets, TLC

VARIABLES
    live,    \* the bridge server's forward list, in `forward --list` order
    cache,   \* ADB._forward_local_using of the cached client (src/adb.py)
    call,    \* the last forward-manager call made through the handle
    prev,    \* the call before it
    run,     \* the last _ADB.cmd invocation
    sh,      \* the last _ADB.shell invocation
    cap,     \* the locals of the running _Minicap.screencap call
    ret,     \* the last call of a method that only computes, and what it gave
    os_environ, \* the names set in os.environ
    files,   \* the files on the host that the handle's temporary paths name
    rp,      \* the running get_available_forward_local call
    rot,     \* the facade's rotation watcher and its observers
    dep      \* the running deployment of the capture agent

vars == <<live, cache, call, prev, run, sh, cap, ret, os_environ, files, rp, rot, dep>>

\* the variables of the subsystems that the forward manager, cmd, shell and
\* screencap do not touch
later == <<ret, os_environ, files, rp, rot, dep>>

-----------------------------------------------------------------------------
(* Bounds of the model *)

\* how many host ports tcp:<p> the model draws locals from
NumLocals == 2

\* the cached client stops forwarding once its cache holds this many entries
MaxCache == 2

\* the longest a child runs, and the largest timeout a caller gives, in seconds
MaxDur == 2

\* the longest frame body the capture agent sends, in bytes
MaxBody == 3

-----------------------------------------------------------------------------
(* Python values *)

NoneV == "<None>"

\* Python truthiness of a str-or-None argument (`if local:`)
Truthy(x) == x # NoneV /\ x # ""

\* seq[i] as Python evaluates it: 0-based, a negative index counts from the
\* end, anything else out of range raises IndexError
PyInRange(seq, i) == (i >= 0 /\ i < Len(seq)) \/ (i < 0 /\ -i <= Len(seq))

PyAt(seq, i) == IF i >= 0 THEN seq[i + 1] ELSE seq[Len(seq) + i + 1]

Min(a, b) == IF a <= b THEN a ELSE b

-----------------------------------------------------------------------------
(* The names the model draws from *)

LocalNames == <<"tcp:11111", "tcp:11112", "tcp:11113", "tcp:11114">>

\* the serials of the two devices that share the bridge endpoint
SerialNames == <<"emulator-5554", "emulator-5556">>

Locals == {LocalNames[i] : i \in 1..NumLocals}

Serials == {SerialNames[i] : i \in 1..Len(SerialNames)}

Remotes == {"localabstract:minicap", "localabstract:minitouch"}

\* self.device_id of the handle under study
device_id == SerialNames[1]


-----------------------------------------------------------------------------
(* Launching the bridge tool: _set_cmd_options, start_cmd *)

adb_path == "adb"

host == "127.0.0.1"

port == 5037

\* _ADB._set_cmd_options: the leading words of every argv
_set_cmd_options(h, p) ==
    <<adb_path>>
    \o (IF h \notin {"localhost", "127.0.0.1"} THEN <<"-H", h>> ELSE <<>>)
    \o (IF p # 5037 THEN <<"-P", ToString(p)>> ELSE <<>>)

cmd_options == _set_cmd_options(host, port)

\* _ADB.start_cmd: the argv handed to subprocess.Popen; with devices=True an
\* unset device_id raises before anything is launched (`raise logger.error(...)`
\* raises the value logger.error returns, None: a TypeError)
start_cmd_of(self, cmds, devices) ==
    IF devices /\ ~Truthy(self.device_id)
    THEN [raised |-> "TypeError", argv |-> <<>>]
    ELSE [raised |-> "None",
          argv |-> (IF devices THEN self.cmd_options \o <<"-s", self.device_id>>
                    ELSE self.cmd_options)
                   \o cmds]

\* start_cmd on the handle under study
start_cmd(cmds, devices) ==
    start_cmd_of([device_id |-> device_id, cmd_options |-> cmd_options], cmds, devices)

-----------------------------------------------------------------------------
(* The bridge tool and its server, as the child process the client launches.
   The server keeps one listener per local name, whatever the device. *)

\* the words of argv after the bridge path and the -H/-P/-s options
RECURSIVE ArgvSub(_)
ArgvSub(argv) ==
    IF Len(argv) >= 2 /\ argv[1] \in {"-H", "-P", "-s"}
    THEN ArgvSub(SubSeq(argv, 3, Len(argv)))
    ELSE argv

\* the serial named by -s, NoneV when argv names none
RECURSIVE ArgvSerial(_)
ArgvSerial(argv) ==
    IF Len(argv) >= 2 /\ argv[1] \in {"-H", "-P", "-s"}
    THEN IF argv[1] = "-s" THEN argv[2] ELSE ArgvSerial(SubSeq(argv, 3, Len(argv)))
    ELSE NoneV

HasLocal(fw, local) == \E i \in 1..Len(fw) : fw[i].local = local

\* the lines `forward --list` writes: "<serial> <local> <remote>", one per listener
ListLines(fw) == [i \in 1..Len(fw) |-> <<fw[i].serial, fw[i].local, fw[i].remote>>]

\* what a child does: its return code, what it writes (stdout as a sequence of
\* lines or characters), how long it takes (dur) and the server list it leaves
BridgeReply(rc, out, err, fw) ==
    [returncode |-> rc, stdout |-> out, stderr |-> err, dur |-> 0, fw |-> fw]

\* `forward [--no-rebind] local remote` for the device -s names: a listener on
\* an existing local is refused under --no-rebind and retargeted in place
\* without it; a new local is bound (bindOk: the host port was free) and listed last
BridgeForward(fw, serial, local, remote, no_rebind, bindOk) ==
    IF serial = NoneV
    THEN BridgeReply(1, <<>>, "error: more than one device/emulator", fw)
    ELSE IF HasLocal(fw, local)
    THEN IF no_rebind
         THEN BridgeReply(1, <<>>, "error: cannot rebind existing socket", fw)
         ELSE BridgeReply(0, <<>>, "",
                  [i \in 1..Len(fw) |->
                      IF fw[i].local = local
                      THEN [serial |-> serial, local |-> local, remote |-> remote]
                      ELSE fw[i]])
    ELSE IF ~bindOk
    THEN BridgeReply(1, <<>>, "error: cannot bind listener: Address already in use", fw)
    ELSE BridgeReply(0, <<>>, "",
             Append(fw, [serial |-> serial, local |-> local, remote |-> remote]))

\* `forward --remove local`
BridgeRemove(fw, local) ==
    IF HasLocal(fw, local)
    THEN BridgeReply(0, <<>>, "", SelectSeq(fw, LAMBDA e : e.local # local))
    ELSE BridgeReply(1, <<>>, "error: listener not found", fw)

\* the child process for one argv, run against the server's list fw
Bridge(fw, argv, bindOk) ==
    LET sub == ArgvSub(SubSeq(argv, 2, Len(argv)))
        serial == ArgvSerial(SubSeq(argv, 2, Len(argv)))
    IN  IF sub = <<"forward", "--list">>
        THEN BridgeReply(0, ListLines(fw), "", fw)
        ELSE IF sub = <<"forward", "--remove-all">>
        THEN BridgeReply(0, <<>>, "", <<>>)
        ELSE IF Len(sub) = 3 /\ sub[1] = "forward" /\ sub[2] = "--remove"
        THEN BridgeRemove(fw, sub[3])
        ELSE IF Len(sub) = 4 /\ sub[1] = "forward" /\ sub[2] = "--no-rebind"
        THEN BridgeForward(fw, serial, sub[3], sub[4], TRUE, bindOk)
        ELSE IF Len(sub) = 3 /\ sub[1] = "forward"
        THEN BridgeForward(fw, serial, sub[2], sub[3], FALSE, bindOk)
        ELSE BridgeReply(1, <<>>, "error: unknown command", fw)


\* the world a child runs in: the bridge server with list fw, or a scripted
\* child whose behaviour is given
BridgeWorld(fw, bindOk) ==
    [scripted |-> FALSE, fw |-> fw, bindOk |-> bindOk, reply |-> BridgeReply(0, <<>>, "", fw)]

Scripted(reply) ==
    [scripted |-> TRUE, fw |-> <<>>, bindOk |-> TRUE, reply |-> reply]

Child(world, argv) ==
    IF world.scripted THEN world.reply ELSE Bridge(world.fw, argv, world.bindOk)

-----------------------------------------------------------------------------
(* _ADB.cmd (src/core/adb.py) *)

\* the timeout argument: None, or a number of seconds
NoTimeout == [given |-> FALSE, secs |-> 0]

Seconds(n) == [given |-> TRUE, secs |-> n]

\* `if timeout:` is false for None and for 0
TimeoutTruthy(timeout) == timeout.given /\ timeout.secs # 0

\* proc.communicate(timeout=t) raises TimeoutExpired when the child has not
\* completed after t seconds
Expires(child, timeout) == child.dur > timeout.secs

CmdResult(raised, value, events, err, argv, fw) ==
    [raised |-> raised, value |-> value, events |-> events, err |-> err,
     argv |-> argv, fw |-> fw]

NoErr == [stdout |-> <<>>, stderr |-> "", cmds |-> <<>>]

\* the test on the child's return code that decides whether cmd raises
ReturncodeIsError(returncode) == returncode > 0

\* _ADB.cmd: launch, wait (with the timeout when it is truthy), raise AdbError
\* on an error return code unless skip_error, return stdout
cmd(world, cmds, devices, timeout, skip_error) ==
    LET proc == start_cmd(cmds, devices)
        child == Child(world, proc.argv)
    IN  IF proc.raised # "None"
        THEN CmdResult(proc.raised, <<>>, <<>>, NoErr, <<>>, world.fw)
        ELSE IF TimeoutTruthy(timeout) /\ Expires(child, timeout)
        THEN CmdResult("TimeoutExpired", <<>>,
                       <<"spawn", "communicate(timeout)", "kill", "communicate", "raise">>,
                       NoErr, proc.argv, child.fw)
        ELSE IF ReturncodeIsError(child.returncode) /\ ~skip_error
        THEN CmdResult("AdbError", <<>>, <<"spawn", "communicate", "raise">>,
                       [stdout |-> child.stdout, stderr |-> child.stderr, cmds |-> cmds],
                       proc.argv, child.fw)
        ELSE CmdResult("None", child.stdout, <<"spawn", "communicate", "return">>,
                       NoErr, proc.argv, child.fw)

-----------------------------------------------------------------------------
(* The forward manager of the core client (src/core/adb.py) *)

SetMin(S) == CHOOSE i \in S : \A j \in S : i <= j

\* the parsing loop of get_forwards: lines of three columns, the serial dropped
ParseForwards(lines) ==
    LET rows == SelectSeq(lines, LAMBDA cols : Len(cols) = 3)
    IN  [i \in 1..Len(rows) |-> [local |-> rows[i][2], remote |-> rows[i][3]]]

\* _ADB.get_forwards: `forward --list` without -s, errors skipped
get_forwards(fw) ==
    ParseForwards(cmd(BridgeWorld(fw, TRUE), <<"forward", "--list">>, FALSE, NoTimeout, TRUE).value)

\* does entry value match the arguments of _local_in_forwards
EntryMatches(value, local, remote) ==
    \/ Truthy(local) /\ value.local = local
    \/ Truthy(remote) /\ value.remote = remote

\* _ADB._local_in_forwards: the first entry of the live list whose local or
\* whose remote matches; index is -1 for Python's None (never used as an index)
_local_in_forwards(fw, local, remote) ==
    LET l == get_forwards(fw)
        hits == {i \in 1..Len(l) : EntryMatches(l[i], local, remote)}
    IN  IF hits = {} THEN [is_use |-> FALSE, index |-> -1]
        ELSE [is_use |-> TRUE, index |-> SetMin(hits) - 1]

ListArgv == start_cmd(<<"forward", "--list">>, FALSE).argv

\* _ADB.forward: the outcome, the server's list afterwards and the argvs issued
forward(fw, local, remote, no_rebind, bindOk) ==
    LET r == _local_in_forwards(fw, local, remote)
        cmds == <<"forward">> \o (IF no_rebind THEN <<"--no-rebind">> ELSE <<>>)
                \o <<local, remote>>
        c == cmd(BridgeWorld(fw, bindOk), cmds, TRUE, NoTimeout, FALSE)
        forward_local_using == get_forwards(fw)
    IN  IF ~r.is_use
        THEN [raised |-> c.raised, fw |-> c.fw, issued |-> <<ListArgv, c.argv>>]
        ELSE [raised |-> IF PyInRange(forward_local_using, r.index)
                         THEN "None" ELSE "IndexError",
              fw |-> fw, issued |-> <<ListArgv, ListArgv>>]

\* remove_forward with its test inverted
remove_forward_inverted(fw, local) ==
    LET cmds == IF ~Truthy(local) THEN <<"forward", "--remove", local>>
                ELSE <<"forward", "--remove-all">>
        c == cmd(BridgeWorld(fw, TRUE), cmds, TRUE, NoTimeout, FALSE)
    IN  [raised |-> c.raised, fw |-> c.fw, issued |-> <<c.argv>>]

\* _ADB.remove_forward
remove_forward(fw, local) ==
    LET cmds == IF Truthy(local) THEN <<"forward", "--remove", local>>
                ELSE <<"forward", "--remove-all">>
        c == cmd(BridgeWorld(fw, TRUE), cmds, TRUE, NoTimeout, FALSE)
    IN  [raised |-> c.raised, fw |-> c.fw, issued |-> <<c.argv>>]


-----------------------------------------------------------------------------
(* The cached client (src/adb.py, class ADB) *)

\* ADB.cmd: no skip_error; an error return code ends in `raise logger.error(...)`,
\* which raises the value logger.error returns, None: a TypeError
ADB_cmd(world, cmds, devices, timeout) ==
    LET proc == start_cmd(cmds, devices)
        child == Child(world, proc.argv)
    IN  IF proc.raised # "None"
        THEN CmdResult(proc.raised, <<>>, <<>>, NoErr, <<>>, world.fw)
        ELSE IF TimeoutTruthy(timeout) /\ Expires(child, timeout)
        THEN CmdResult("TimeoutExpired", <<>>,
                       <<"spawn", "communicate(timeout)", "kill", "communicate", "raise">>,
                       NoErr, proc.argv, child.fw)
        ELSE IF child.returncode > 0
        THEN CmdResult("TypeError", <<>>, <<"spawn", "communicate", "raise">>,
                       NoErr, proc.argv, child.fw)
        ELSE CmdResult("None", child.stdout, <<"spawn", "communicate", "return">>,
                       NoErr, proc.argv, child.fw)

\* ADB.get_forwards: `-s <serial> forward --list`
ADB_get_forwards(fw) ==
    ParseForwards(ADB_cmd(BridgeWorld(fw, TRUE), <<"forward", "--list">>, TRUE, NoTimeout).value)

\* ADB._local_in_forwards: as the core client's, -1 when nothing matches
ADB_local_in_forwards(fw, local, remote) ==
    LET l == ADB_get_forwards(fw)
        hits == {i \in 1..Len(l) : EntryMatches(l[i], local, remote)}
    IN  IF hits = {} THEN [is_use |-> FALSE, index |-> -1]
        ELSE [is_use |-> TRUE, index |-> SetMin(hits) - 1]

ADB_ListArgv == start_cmd(<<"forward", "--list">>, TRUE).argv

\* ADB.forward: a new forward is appended to the cache; an existing one is
\* logged from the cache, at the index found in the live list
ADB_forward(fw, using, local, remote, no_rebind, bindOk) ==
    LET r == ADB_local_in_forwards(fw, local, remote)
        cmds == <<"forward">> \o (IF no_rebind THEN <<"--no-rebind">> ELSE <<>>)
                \o <<local, remote>>
        c == ADB_cmd(BridgeWorld(fw, bindOk), cmds, TRUE, NoTimeout)
    IN  IF ~r.is_use
        THEN [raised |-> c.raised, fw |-> c.fw,
              using |-> IF c.raised = "None"
                        THEN Append(using, [local |-> local, remote |-> remote])
                        ELSE using,
              issued |-> <<ADB_ListArgv, c.argv>>]
        ELSE [raised |-> IF PyInRange(using, r.index) THEN "None" ELSE "IndexError",
              fw |-> fw, using |-> using, issued |-> <<ADB_ListArgv>>]

\* `del seq[i]`
PyDel(seq, i) ==
    LET k == IF i >= 0 THEN i + 1 ELSE Len(seq) + i + 1
    IN  SubSeq(seq, 1, k - 1) \o SubSeq(seq, k + 1, Len(seq))

\* ADB.remove_forward: the command, then the cache entry at the index that the
\* live list (queried after the removal) gives for local
ADB_remove_forward(fw, using, local) ==
    LET cmds == IF Truthy(local) THEN <<"forward", "--remove", local>>
                ELSE <<"forward", "--remove-all">>
        c == ADB_cmd(BridgeWorld(fw, TRUE), cmds, TRUE, NoTimeout)
        r == IF Truthy(local) THEN ADB_local_in_forwards(c.fw, local, NoneV)
             ELSE [is_use |-> FALSE, index |-> -1]
    IN  IF c.raised # "None"
        THEN [raised |-> c.raised, fw |-> c.fw, using |-> using, issued |-> <<c.argv>>]
        ELSE IF ~r.is_use
        THEN [raised |-> "None", fw |-> c.fw, using |-> using,
              issued |-> <<c.argv>> \o (IF Truthy(local) THEN <<ADB_ListArgv>> ELSE <<>>)]
        ELSE IF PyInRange(using, r.index)
        THEN [raised |-> "None", fw |-> c.fw, using |-> PyDel(using, r.index),
              issued |-> <<c.argv, ADB_ListArgv>>]
        ELSE [raised |-> "IndexError", fw |-> c.fw, using |-> using,
              issued |-> <<c.argv, ADB_ListArgv>>]

-----------------------------------------------------------------------------
(* State of the forward manager, and its operations as actions *)

Entries == [serial : Serials, local : Locals, remote : Remotes]

\* the lists the bridge server can hold: one listener per local
ForwardLists ==
    {fw \in UNION {[1..n -> Entries] : n \in 0..NumLocals} :
        \A i, j \in 1..Len(fw) : i # j => fw[i].local # fw[j].local}

IdleCall ==
    [op |-> "none", local |-> NoneV, remote |-> NoneV, no_rebind |-> FALSE,
     raised |-> "None", before |-> <<>>, issued |-> <<>>]

Brief(c) == [op |-> c.op, local |-> c.local, remote |-> c.remote, raised |-> c.raised]

IdleRun == [op |-> "none"]

IdleSh == [op |-> "none"]

IdleCap == [pc |-> "none"]

IdleRet == [op |-> "none"]

IdleRp == [pc |-> "none"]

IdleRot == [pc |-> "none"]

IdleDep == [pc |-> "none"]

\* nothing of the later subsystems has run: no environment name and no
\* temporary file is of interest
LaterIdle ==
    /\ ret = IdleRet /\ os_environ = {} /\ files = {}
    /\ rp = IdleRp /\ rot = IdleRot /\ dep = IdleDep

OtherSubsystemsIdle == run = IdleRun /\ sh = IdleSh /\ cap = IdleCap /\ LaterIdle

\* the core client, built while the server holds any list
InitForward ==
    /\ live \in ForwardLists
    /\ cache = <<>>
    /\ call = IdleCall
    /\ prev = Brief(IdleCall)
    /\ OtherSubsystemsIdle

\* the cached client after ADB.__init__: the cache is the live list of that moment
InitCached ==
    /\ live \in ForwardLists
    /\ cache = ADB_get_forwards(live)
    /\ call = IdleCall
    /\ prev = Brief(IdleCall)
    /\ OtherSubsystemsIdle

Forward ==
    \E local \in Locals, remote \in Remotes, no_rebind \in BOOLEAN, bindOk \in BOOLEAN :
        LET res == forward(live, local, remote, no_rebind, bindOk)
        IN  /\ live' = res.fw
            /\ call' = [op |-> "forward", local |-> local, remote |-> remote,
                        no_rebind |-> no_rebind, raised |-> res.raised,
                        before |-> live, issued |-> res.issued]
            /\ prev' = Brief(call)
            /\ UNCHANGED <<cache, run, sh, cap>> /\ UNCHANGED later

RemoveForward ==
    \E local \in Locals \cup {NoneV, ""} :
        LET res == remove_forward(live, local)
        IN  /\ live' = res.fw
            /\ call' = [op |-> "remove_forward", local |-> local, remote |-> NoneV,
                        no_rebind |-> FALSE, raised |-> res.raised,
                        before |-> live, issued |-> res.issued]
            /\ prev' = Brief(call)
            /\ UNCHANGED <<cache, run, sh, cap>> /\ UNCHANGED later

CachedForward ==
    \E local \in Locals, remote \in Remotes, no_rebind \in BOOLEAN, bindOk \in BOOLEAN :
        LET res == ADB_forward(live, cache, local, remote, no_rebind, bindOk)
        IN  /\ Len(cache) < MaxCache
            /\ live' = res.fw
            /\ cache' = res.using
            /\ call' = [op |-> "forward", local |-> local, remote |-> remote,
                        no_rebind |-> no_rebind, raised |-> res.raised,
                        before |-> live, issued |-> res.issued]
            /\ prev' = Brief(call)
            /\ UNCHANGED <<run, sh, cap>> /\ UNCHANGED later

CachedRemoveForward ==
    \E local \in Locals \cup {NoneV, ""} :
        LET res == ADB_remove_forward(live, cache, local)
        IN  /\ live' = res.fw
            /\ cache' = res.using
            /\ call' = [op |-> "remove_forward", local |-> local, remote |-> NoneV,
                        no_rebind |-> FALSE, raised |-> res.raised,
                        before |-> live, issued |-> res.issued]
            /\ prev' = Brief(call)
            /\ UNCHANGED <<run, sh, cap>> /\ UNCHANGED later

\* another handle or process on the same bridge endpoint adds, retargets or
\* removes a forward between two calls of the handle under study
OtherParty ==
    /\ \/ \E serial \in Serials, local \in Locals, remote \in Remotes, no_rebind \in BOOLEAN :
              live' = BridgeForward(live, serial, local, remote, no_rebind, TRUE).fw
       \/ \E local \in Locals : live' = BridgeRemove(live, local).fw
    /\ live' # live
    /\ call' = IdleCall
    /\ prev' = Brief(IdleCall)
    /\ UNCHANGED <<cache, run, sh, cap>> /\ UNCHANGED later

NextForward == Forward \/ RemoveForward \/ OtherParty

SpecForward == InitForward /\ [][NextForward]_vars

NextCached == CachedForward \/ CachedRemoveForward \/ OtherParty

SpecCached == InitCached /\ [][NextCached]_vars


-----------------------------------------------------------------------------
(* Claims about the forward manager *)

\* how often the pair (local, remote) occurs in what get_forwards returns
PairCount(fw, local, remote) ==
    Cardinality({i \in 1..Len(get_forwards(fw)) :
                    get_forwards(fw)[i] = [local |-> local, remote |-> remote]})

\* the subcommand of an issued argv creates or retargets a forward
CreatesForward(argv) ==
    LET sub == ArgvSub(SubSeq(argv, 2, Len(argv)))
    IN  Len(sub) >= 3 /\ sub[1] = "forward" /\ sub[2] \notin {"--remove", "--list"}

\* the call just made repeats the call before it, which returned without error
ForwardRepeated ==
    /\ call.op = "forward" /\ prev.op = "forward"
    /\ prev.local = call.local /\ prev.remote = call.remote
    /\ prev.raised = "None"

\* C1: after forward(local, remote, no_rebind=true) has returned without
\* error, from any contents of the bridge's list, `forward --list` holds the
\* pair (local, remote) exactly once.
C1_ForwardedPairListedOnce ==
    (call.op = "forward" /\ call.no_rebind /\ call.raised = "None")
        => PairCount(live, call.local, call.remote) = 1

\* C2: forward(L, R) made twice in a row: the second call leaves the bridge's
\* list as the first left it, issues no forward-creating command and raises
\* no error.
C2_SecondForwardIsNoOp ==
    ForwardRepeated =>
        /\ call.raised = "None"
        /\ live = call.before
        /\ \A k \in 1..Len(call.issued) : ~CreatesForward(call.issued[k])

\* C3: remove_forward(local) with a non-empty local issues `forward --remove
\* local`, after which the live list has no entry with that local and every
\* other entry is as before; remove_forward(None) issues `forward
\* --remove-all`, after which the live list is empty.
C3_RemoveForwardEffect ==
    /\ (call.op = "remove_forward" /\ Truthy(call.local)) =>
          /\ Len(call.issued) >= 1
          /\ ArgvSub(SubSeq(call.issued[1], 2, Len(call.issued[1])))
                = <<"forward", "--remove", call.local>>
          /\ ~HasLocal(live, call.local)
          /\ live = SelectSeq(call.before, LAMBDA e : e.local # call.local)
    /\ (call.op = "remove_forward" /\ call.local = NoneV) =>
          /\ Len(call.issued) >= 1
          /\ ArgvSub(SubSeq(call.issued[1], 2, Len(call.issued[1])))
                = <<"forward", "--remove-all">>
          /\ live = <<>>

\* a listed local was removed from a list that held another entry too
C3_Witness ==
    /\ call.op = "remove_forward" /\ Truthy(call.local) /\ call.raised = "None"
    /\ HasLocal(call.before, call.local)
    /\ Len(call.before) >= 2 /\ Len(live) = Len(call.before) - 1


-----------------------------------------------------------------------------
(* _ADB.cmd on an arbitrary child *)

\* return codes of a child: negative when a signal ended it (SIGTERM, SIGKILL)
ReturnCodes == {-15, -9, 0, 1, 2, 255}

Outputs == {<<>>, <<"o", "k">>}

Timeouts == {NoTimeout} \cup {Seconds(n) : n \in 0..MaxDur}

InitCmd ==
    /\ run = IdleRun
    /\ live = <<>> /\ cache = <<>> /\ call = IdleCall /\ prev = Brief(IdleCall)
    /\ sh = IdleSh /\ cap = IdleCap /\ LaterIdle

\* one call cmd(cmds, timeout=..., skip_error=...) on a child that exits with
\* returncode after dur seconds, having written stdout and stderr
Cmd ==
    \E returncode \in ReturnCodes, stdout \in Outputs, dur \in 0..MaxDur,
       timeout \in Timeouts, skip_error \in BOOLEAN :
        LET child == [returncode |-> returncode, stdout |-> stdout,
                      stderr |-> "stderr", dur |-> dur, fw |-> <<>>]
            cmds == <<"get-state">>
            res == cmd(Scripted(child), cmds, TRUE, timeout, skip_error)
        IN  /\ run' = [op |-> "cmd", cmds |-> cmds, child |-> child,
                       timeout |-> timeout, skip_error |-> skip_error,
                       raised |-> res.raised, value |-> res.value,
                       events |-> res.events, err |-> res.err]
            /\ UNCHANGED <<live, cache, call, prev, sh, cap>> /\ UNCHANGED later

NextCmd == Cmd

SpecCmd == InitCmd /\ [][NextCmd]_vars

\* the child was still running when the supplied timeout expired
Outlived == run.timeout.given /\ run.child.dur > run.timeout.secs

\* event a occurs in the sequence, and b occurs after it
Before(events, a, b) ==
    \E i, j \in 1..Len(events) : i < j /\ events[i] = a /\ events[j] = b

\* C8: a child that returns a code other than 0 (a negative code included):
\* without skip_error cmd raises AdbError carrying stdout, stderr and the
\* command and returns nothing; with skip_error it returns stdout.
C8_NonZeroReturncodeRaises ==
    (run.op = "cmd" /\ ~Outlived /\ run.child.returncode # 0) =>
        IF run.skip_error
        THEN run.raised = "None" /\ run.value = run.child.stdout
        ELSE /\ run.raised = "AdbError"
             /\ run.err = [stdout |-> run.child.stdout, stderr |-> run.child.stderr,
                           cmds |-> run.cmds]

\* C9: for every timeout value supplied, a child that has not completed when
\* the timeout expires is killed, then drained, then a timeout error is
\* raised; cmd never returns stdout for it.
C9_TimeoutKillsDrainsRaises ==
    (run.op = "cmd" /\ Outlived) =>
        /\ run.raised = "TimeoutExpired"
        /\ Before(run.events, "kill", "communicate")
        /\ Before(run.events, "communicate", "raise")


-----------------------------------------------------------------------------
(* _ADB.shell (src/core/adb.py).  Text is a sequence of one-character strings. *)

DigitChars == <<"0", "1", "2", "3", "4", "5", "6", "7", "8", "9">>

IsDigit(c) == \E d \in 1..10 : DigitChars[d] = c

DigitValue(c) == (CHOOSE d \in 1..10 : DigitChars[d] = c) - 1

\* str(n) for n >= 0, as the device's shell expands $?
RECURSIVE Decimal(_)
Decimal(n) ==
    IF n < 10 THEN <<DigitChars[n + 1]>>
    ELSE Append(Decimal(n \div 10), DigitChars[(n % 10) + 1])

\* int(text) for a text of digits
RECURSIVE ParseInt(_)
ParseInt(text) ==
    IF text = <<>> THEN 0
    ELSE 10 * ParseInt(SubSeq(text, 1, Len(text) - 1)) + DigitValue(text[Len(text)])

IsSpace(c) == c \in {" ", "\n", "\r", "\t"}

\* str.rstrip()
RECURSIVE rstrip(_)
rstrip(text) ==
    IF text # <<>> /\ IsSpace(text[Len(text)])
    THEN rstrip(SubSeq(text, 1, Len(text) - 1))
    ELSE text

Dashes == <<"-", "-", "-">>

\* re.match("(.*)---(\d+)---$", out, re.DOTALL): the places i where
\* `---<digits>---` runs from i to the end of out.  The digits must fill
\* everything between the two dash runs, so at most one place matches.
MarkerStarts(out) ==
    {i \in 1..Len(out) :
        /\ Len(out) - i + 1 >= 7
        /\ SubSeq(out, i, i + 2) = Dashes
        /\ SubSeq(out, Len(out) - 2, Len(out)) = Dashes
        /\ \A k \in (i + 3)..(Len(out) - 3) : IsDigit(out[k])}

\* the words shell appends for the return-code workaround
MarkerWords == <<";", "echo", "---$?---">>

EndsWithMarkerWords(argv) ==
    Len(argv) >= 3 /\ SubSeq(argv, Len(argv) - 2, Len(argv)) = MarkerWords

\* the device's shell as the child of `adb shell ...`: the command writes text
\* and exits with code exit; when `; echo ---$?---` follows it, the marker
\* line follows the text and the shell's own status is that of echo
DeviceShell(argv, text, exit) ==
    IF EndsWithMarkerWords(argv)
    THEN [returncode |-> 0, stdout |-> text \o Dashes \o Decimal(exit) \o Dashes \o <<"\n">>,
          stderr |-> "", dur |-> 0, fw |-> <<>>]
    ELSE [returncode |-> exit, stdout |-> text, stderr |-> "", dur |-> 0, fw |-> <<>>]

\* _ADB.raw_shell run against a device whose command writes text and exits with exit
raw_shell(cmds, text, exit) ==
    LET full == <<"shell">> \o cmds
    IN  cmd(Scripted(DeviceShell(full, text, exit)), full, TRUE, NoTimeout, FALSE)

\* what `raise logger.error(...)` raises: logger.error returns None, and raising
\* None is a TypeError; nothing of the failed command travels with it
RaiseLoggerError == [raised |-> "TypeError", returncode |-> -1, value |-> <<>>]

ShellReturn(value) == [raised |-> "None", returncode |-> -1, value |-> value]

\* the branch test of shell: the workaround is for SDK levels below 25
NeedsMarker(sdk) == sdk < 25

\* _ADB.shell: the outcome (the exception raised, the return code it carries,
\* -1 when it carries none, the value returned) and the words sent to the device
shell(sdk, words, text, exit) ==
    IF NeedsMarker(sdk)
    THEN LET sent == words \o MarkerWords
             r == raw_shell(sent, text, exit)
             out == rstrip(r.value)
             m == MarkerStarts(out)
             i == CHOOSE i \in m : TRUE
             stdout == IF m = {} THEN out ELSE SubSeq(out, 1, i - 1)
             returncode == IF m = {} THEN 0
                           ELSE ParseInt(SubSeq(out, i + 3, Len(out) - 3))
         IN  [sent |-> sent,
              res |-> IF r.raised # "None"
                      THEN [raised |-> r.raised, returncode |-> -1, value |-> <<>>]
                      ELSE IF returncode > 0 THEN RaiseLoggerError
                      ELSE ShellReturn(stdout)]
    ELSE LET r == raw_shell(words, text, exit)
         IN  [sent |-> words,
              res |-> IF r.raised = "AdbError" THEN RaiseLoggerError
                      ELSE IF r.raised # "None"
                      THEN [raised |-> r.raised, returncode |-> -1, value |-> <<>>]
                      ELSE ShellReturn(r.value)]

SdkLevels == {22, 24, 25, 26}

ExitCodes == {0, 1, 2, 10, 127, 255}

\* what the device command writes: nothing, a line, text without a newline,
\* text that itself looks like a marker, text ending in dashes
Texts ==
    {<<>>, <<"o", "k", "\n">>, <<"o", "k">>,
     <<"-", "-", "-", "7", "-", "-", "-", "\n">>, <<"a", "-", "-">>}

InitShell ==
    /\ sh = IdleSh
    /\ live = <<>> /\ cache = <<>> /\ call = IdleCall /\ prev = Brief(IdleCall)
    /\ run = IdleRun /\ cap = IdleCap /\ LaterIdle

\* one call shell(words) on a device of SDK level sdk
Shell ==
    \E sdk \in SdkLevels, text \in Texts, exit \in ExitCodes :
        LET words == <<"false">>
            r == shell(sdk, words, text, exit)
        IN  /\ sh' = [op |-> "shell", sdk |-> sdk, text |-> text, exit |-> exit,
                      sent |-> r.sent, raised |-> r.res.raised,
                      returncode |-> r.res.returncode, value |-> r.res.value]
            /\ UNCHANGED <<live, cache, call, prev, run, cap>> /\ UNCHANGED later

NextShell == Shell

SpecShell == InitShell /\ [][NextShell]_vars

\* C10: a device command that exits with N # 0: on SDK < 25 shell appends the
\* marker words and fails with an error carrying N, on SDK >= 25 it appends
\* nothing and raises AdbError; with exit code 0 it returns the command's
\* stdout without the marker.
C10_ShellReturnCode ==
    sh.op = "shell" =>
        /\ EndsWithMarkerWords(sh.sent) <=> sh.sdk < 25
        /\ (sh.exit # 0 /\ sh.sdk < 25) => (sh.raised # "None" /\ sh.returncode = sh.exit)
        /\ (sh.exit # 0 /\ sh.sdk >= 25) => sh.raised = "AdbError"
        /\ sh.exit = 0 =>
              /\ sh.raised = "None"
              /\ sh.value = sh.text

\* the part of C10 that the code keeps: the marker words are sent exactly on
\* SDK < 25, a non-zero exit code ends in an error, and exit code 0 returns
\* the command's stdout without the marker
ShellKeeps ==
    sh.op = "shell" =>
        /\ EndsWithMarkerWords(sh.sent) <=> sh.sdk < 25
        /\ sh.exit # 0 => sh.raised # "None"
        /\ sh.exit = 0 => (sh.raised = "None" /\ sh.value = sh.text)


-----------------------------------------------------------------------------
(* _Minicap.screencap (src/adb.py): the capture stream parser *)

\* the size asked of each client_socket.recv
RecvSize == 36000

\* what the agent writes before it closes the socket: a 24-byte banner, then
\* a frame (4-byte little-endian length, body), possibly cut short anywhere
ExampleBanner ==
    <<1, 24, 0, 0, 0, 0, 128, 7, 0, 0, 56, 4, 0, 0, 128, 7, 0, 0, 56, 4, 0, 0, 1, 0>>

OtherBanner ==
    <<1, 24, 1, 2, 0, 0, 56, 4, 0, 0, 128, 7, 0, 0, 56, 4, 0, 0, 128, 7, 0, 0, 0, 2>>

Banners == {ExampleBanner, OtherBanner}

BodyBytes == {255, 216, 0}

Bodies == UNION {[1..n -> BodyBytes] : n \in 0..MaxBody}

\* n as four little-endian bytes
LE32(n) == <<n % 256, (n \div 256) % 256, (n \div 65536) % 256, (n \div 16777216) % 256>>

\* the little-endian value of the n bytes of s from 1-based place from
RECURSIVE LEValue(_, _, _)
LEValue(s, from, n) ==
    IF n = 0 THEN 0 ELSE s[from] + 256 * LEValue(s, from + 1, n - 1)

\* the first byte of a following frame's length
Trailers == {<<>>, <<5>>}

FullStreams == {b \o LE32(Len(body)) \o body \o t : b \in Banners, body \in Bodies, t \in Trailers}

Streams == UNION {{SubSeq(f, 1, k) : k \in 0..Len(f)} : f \in FullStreams}

\* the locals of screencap as the call reaches its `while True`
StartCap(stream, decodable) ==
    [pc |-> "loop", raised |-> "None", stream |-> stream, decodable |-> decodable,
     pos |-> 0, eofReads |-> 0, sockOpen |-> TRUE, img |-> <<>>,
     readBannerBytes |-> 0, bannerLength |-> 2, readFrameBytes |-> 0,
     frameBodyLengthRemaining |-> 0,
     frameBody |-> [kind |-> "str", data |-> <<>>],
     banner |-> [version |-> 0, length |-> 0, pid |-> 0, realWidth |-> 0,
                 realHeight |-> 0, virtualWidth |-> 0, virtualHeight |-> 0,
                 orientation |-> 0, quirks |-> 0]]

\* the banner branch's assignments for the byte at banner offset n
BannerByte(banner, n, b) ==
    IF n = 0 THEN [banner EXCEPT !.version = b]
    ELSE IF n = 1 THEN [banner EXCEPT !.length = b]
    ELSE IF n >= 2 /\ n <= 5 THEN [banner EXCEPT !.pid = b]
    ELSE IF n = 23 THEN [banner EXCEPT !.quirks = b]
    ELSE banner

Pow2(n) == 2 ^ n

CapRaise(st, exc) == [st EXCEPT !.pc = "raised", !.raised = exc]

\* the body branch when the chunk holds the rest of the frame: `frameBody +
\* chunk[...]` (a str and a bytes cannot be added), the two tests of the first
\* bytes (exit() raises SystemExit), cv2.imdecode and cv2.resize (resize raises
\* on the None that imdecode gives for bytes it cannot decode), close, return
CompleteFrame(st, chunk, cursor) ==
    LET fb == st.frameBody.data
              \o SubSeq(chunk, cursor + 1, cursor + st.frameBodyLengthRemaining)
    IN  IF st.frameBody.kind = "str" THEN CapRaise(st, "TypeError")
        ELSE IF Len(fb) = 0 THEN CapRaise(st, "IndexError")
        ELSE IF fb[1] # 255 THEN CapRaise(st, "SystemExit")
        ELSE IF Len(fb) < 2 THEN CapRaise(st, "IndexError")
        ELSE IF fb[2] # 216 THEN CapRaise(st, "SystemExit")
        ELSE IF ~st.decodable THEN CapRaise([st EXCEPT !.frameBody.data = fb], "cv2.error")
        ELSE [st EXCEPT !.pc = "returned", !.frameBody.data = fb, !.img = fb,
                        !.sockOpen = FALSE]

\* the inner `while cursor < len(chunk)` loop, cursor 0-based as in the code
RECURSIVE ParseChunk(_, _, _)
ParseChunk(st, chunk, cursor) ==
    IF st.pc # "loop" \/ cursor >= Len(chunk) THEN st
    ELSE IF st.readBannerBytes < st.bannerLength
    THEN ParseChunk(
             [st EXCEPT !.banner = BannerByte(@, st.readBannerBytes, chunk[cursor + 1]),
                        !.bannerLength = IF st.readBannerBytes = 1
                                         THEN chunk[cursor + 1] ELSE @,
                        !.readBannerBytes = @ + 1],
             chunk, cursor + 1)
    ELSE IF st.readFrameBytes < 4
    THEN ParseChunk(
             [st EXCEPT !.frameBodyLengthRemaining =
                            @ + chunk[cursor + 1] * Pow2(st.readFrameBytes * 8),
                        !.readFrameBytes = @ + 1],
             chunk, cursor + 1)
    ELSE IF Len(chunk) - cursor >= st.frameBodyLengthRemaining
    THEN CompleteFrame(st, chunk, cursor)
    ELSE [st EXCEPT !.frameBody = [kind |-> "bytes",
                                   data |-> @.data \o SubSeq(chunk, cursor + 1, Len(chunk))],
                    !.frameBodyLengthRemaining = @ - (Len(chunk) - cursor),
                    !.readFrameBytes = @ + (Len(chunk) - cursor)]

InitCap ==
    /\ \E stream \in Streams, decodable \in BOOLEAN : cap = StartCap(stream, decodable)
    /\ live = <<>> /\ cache = <<>> /\ call = IdleCall /\ prev = Brief(IdleCall)
    /\ run = IdleRun /\ sh = IdleSh /\ LaterIdle

\* one turn of the outer loop on a socket that has bytes: recv hands over the
\* next n of them, the inner loop parses them
Recv ==
    /\ cap.pc = "loop"
    /\ cap.pos < Len(cap.stream)
    /\ \E n \in 1..Min(Len(cap.stream) - cap.pos, RecvSize) :
          cap' = ParseChunk([cap EXCEPT !.pos = @ + n],
                            SubSeq(cap.stream, cap.pos + 1, cap.pos + n), 0)
    /\ UNCHANGED <<live, cache, call, prev, run, sh>> /\ UNCHANGED later

\* one turn of the outer loop at end of stream: recv returns b'' and the loop
\* continues (eofReads: 0 before the first empty read, then 1, 2, 1, 2, ...)
RecvEof ==
    /\ cap.pc = "loop"
    /\ cap.pos = Len(cap.stream)
    /\ cap' = [cap EXCEPT !.eofReads = IF @ = 1 THEN 2 ELSE 1]
    /\ UNCHANGED <<live, cache, call, prev, run, sh>> /\ UNCHANGED later

NextCap == Recv \/ RecvEof

SpecCap == InitCap /\ [][NextCap]_vars

\* the thread running screencap keeps taking turns of its loop
FairSpecCap == SpecCap /\ WF_vars(Recv) /\ WF_vars(RecvEof)


-----------------------------------------------------------------------------
(* Claims about the capture stream *)

\* the banner length the stream declares in its second byte
DeclaredBanner(stream) == stream[2]

\* the frame length the stream declares after its banner
DeclaredLen(stream) == LEValue(stream, DeclaredBanner(stream) + 1, 4)

\* the stream holds a whole banner, a whole length and a whole body
HasFrame(stream) ==
    /\ Len(stream) >= 2
    /\ Len(stream) >= DeclaredBanner(stream) + 4
    /\ Len(stream) >= DeclaredBanner(stream) + 4 + DeclaredLen(stream)

FrameEnd(stream) == DeclaredBanner(stream) + 4 + DeclaredLen(stream)

Body(stream) == SubSeq(stream, DeclaredBanner(stream) + 5, FrameEnd(stream))

StartsWithSOI(body) == Len(body) >= 2 /\ body[1] = 255 /\ body[2] = 216

\* the call has received the last byte of the stream's first frame
FrameReceived ==
    cap.pc # "none" /\ HasFrame(cap.stream) /\ cap.pos >= FrameEnd(cap.stream)

\* C4: however the stream is cut into recv chunks, a returned frame has as
\* many bytes as the length before it declared and starts with FF D8, and
\* whether the frame is returned does not depend on the cut: once the last
\* byte of a decodable frame that starts with FF D8 has arrived, it is returned.
C4_FramingIndependentOfChunks ==
    /\ cap.pc = "returned" =>
          /\ HasFrame(cap.stream)
          /\ Len(cap.img) = DeclaredLen(cap.stream)
          /\ StartsWithSOI(cap.img)
    /\ (FrameReceived /\ StartsWithSOI(Body(cap.stream)) /\ cap.decodable) =>
          cap.pc = "returned"

\* the part of C4 that the code keeps: what is returned is the declared frame
ReturnedFrameIsDeclared ==
    cap.pc = "returned" =>
        /\ HasFrame(cap.stream)
        /\ cap.img = Body(cap.stream)
        /\ StartsWithSOI(cap.img)

\* a frame is returned when a recv chunk ends inside its body
ReturnedAfterSplitBody ==
    cap.pc = "returned" /\ cap.stream = ExampleBanner \o <<2, 0, 0, 0, 255, 216>>

\* C5: a completed frame body that does not start with FF D8 makes the call
\* close the capture socket and fail with ProtocolError; no image is returned.
C5_BadFrameClosesAndFails ==
    (FrameReceived /\ Len(Body(cap.stream)) >= 2 /\ ~StartsWithSOI(Body(cap.stream))) =>
        /\ cap.pc = "raised" /\ cap.raised = "ProtocolError"
        /\ ~cap.sockOpen
        /\ cap.img = <<>>

\* C6: when the stream ends before a whole banner, length and body have
\* arrived, the call eventually ends with an error, and it never returns a
\* partial frame.
C6_EofEndsInError ==
    /\ [](cap.pc = "returned" => HasFrame(cap.stream))
    /\ (cap.pc # "none" /\ ~HasFrame(cap.stream) /\ cap.eofReads > 0) ~> (cap.pc = "raised")

\* both bytes that fix the banner's length are read, and the banner is read
BannerConsumed ==
    cap.pc # "none" /\ cap.readBannerBytes >= 2 /\ cap.readBannerBytes >= cap.bannerLength

\* C7: once the banner is consumed every field is the little-endian value of
\* the bytes at its offset, and exactly `length` bytes were consumed as banner.
C7_BannerFieldsDecoded ==
    BannerConsumed =>
        /\ cap.banner.version = cap.stream[1]
        /\ cap.banner.length = cap.stream[2]
        /\ cap.banner.pid = LEValue(cap.stream, 3, 4)
        /\ cap.banner.realWidth = LEValue(cap.stream, 7, 4)
        /\ cap.banner.realHeight = LEValue(cap.stream, 11, 4)
        /\ cap.banner.virtualWidth = LEValue(cap.stream, 15, 4)
        /\ cap.banner.virtualHeight = LEValue(cap.stream, 19, 4)
        /\ cap.banner.orientation = cap.stream[23]
        /\ cap.banner.quirks = cap.stream[24]
        /\ cap.readBannerBytes = cap.stream[2]

\* the part of C7 that the code keeps
BannerKeeps ==
    BannerConsumed =>
        /\ cap.banner.version = cap.stream[1]
        /\ cap.banner.length = cap.stream[2]
        /\ cap.banner.pid = cap.stream[6]
        /\ cap.banner.quirks = cap.stream[24]
        /\ cap.readBannerBytes = cap.stream[2]

-----------------------------------------------------------------------------
(* _ADB.get_status (src/core/adb.py).  Text is a sequence of one-character
   strings. *)

\* no call of the forward manager, cmd, shell or screencap has been made
BaseIdle ==
    /\ live = <<>> /\ cache = <<>> /\ call = IdleCall /\ prev = Brief(IdleCall)
    /\ run = IdleRun /\ sh = IdleSh /\ cap = IdleCap

base == <<live, cache, call, prev, run, sh, cap>>

\* str.lstrip()
RECURSIVE lstrip(_)
lstrip(text) ==
    IF text # <<>> /\ IsSpace(text[1]) THEN lstrip(Tail(text)) ELSE text

\* str.strip()
strip(text) == lstrip(rstrip(text))

\* `needle in text` for two strs
Contains(text, needle) ==
    \E i \in 1..(Len(text) - Len(needle) + 1) :
        SubSeq(text, i, i + Len(needle) - 1) = needle

NotFound == <<"n", "o", "t", " ", "f", "o", "u", "n", "d">>

\* the test with stderr equal to the words, not containing them
StderrSaysAbsent_equal(stderr) == stderr = NotFound

\* `"not found" in stderr`
StderrSaysAbsent(stderr) == Contains(stderr, NotFound)

StatusResult(raised, isNone, value, err) ==
    [raised |-> raised, isNone |-> isNone, value |-> value, err |-> err]

NoStatusErr == [stdout |-> <<>>, stderr |-> <<>>, cmds |-> <<>>]

\* _ADB.get_status on a child that exits with child.returncode having written
\* child.stdout and child.stderr; isNone says that the value returned is None
get_status(child) ==
    LET proc == start_cmd(<<"get-state">>, TRUE)
    IN  IF proc.raised # "None"
        THEN StatusResult(proc.raised, FALSE, <<>>, NoStatusErr)
        ELSE IF child.returncode = 0
        THEN StatusResult("None", FALSE, strip(child.stdout), NoStatusErr)
        ELSE IF StderrSaysAbsent(child.stderr)
        THEN StatusResult("None", TRUE, <<>>, NoStatusErr)
        ELSE StatusResult("AdbError", FALSE, <<>>,
                          [stdout |-> child.stdout, stderr |-> child.stderr,
                           cmds |-> <<"get-state">>])

StatusCodes == {-9, 0, 1, 2, 255}

StatusOutputs ==
    {<<>>,
     <<"d", "e", "v", "i", "c", "e", "\n">>,
     <<" ", "o", "f", "f", "l", "i", "n", "e", " ", "\r", "\n">>,
     <<"\n", "u", "n", "k", "n", "o", "w", "n">>}

\* what the bridge writes to stderr: nothing, the words alone, the words inside
\* a message, and messages that only resemble them
StatusErrors ==
    {<<>>,
     NotFound,
     <<"e", "r", "r", "o", "r", ":", " ", "'", "x", "'", " ">> \o NotFound \o <<"\n">>,
     <<"n", "o", "t", " ", " ", "f", "o", "u", "n", "d">>,
     <<"N", "o", "t", " ", "f", "o", "u", "n", "d">>,
     <<"e", "r", "r", "o", "r", ":", " ", "c", "l", "o", "s", "e", "d">>}

InitStatus == BaseIdle /\ LaterIdle

\* one call get_status() on a child that exits with returncode
GetStatus ==
    \E returncode \in StatusCodes, stdout \in StatusOutputs, stderr \in StatusErrors :
        LET child == [returncode |-> returncode, stdout |-> stdout, stderr |-> stderr]
            res == get_status(child)
        IN  /\ ret' = [op |-> "get_status", child |-> child, raised |-> res.raised,
                       isNone |-> res.isNone, value |-> res.value, err |-> res.err]
            /\ UNCHANGED base
            /\ UNCHANGED <<os_environ, files, rp, rot, dep>>

NextStatus == GetStatus

SpecStatus == InitStatus /\ [][NextStatus]_vars

\* v is s without the white space at its two ends
Trimmed(v, s) ==
    /\ v = <<>> \/ (~IsSpace(v[1]) /\ ~IsSpace(v[Len(v)]))
    /\ \E i \in 0..Len(s) :
          /\ i + Len(v) <= Len(s)
          /\ SubSeq(s, i + 1, i + Len(v)) = v
          /\ \A k \in 1..Len(s) : (k <= i \/ k > i + Len(v)) => IsSpace(s[k])

\* C11: get_status returns the trimmed stdout when the bridge exits with 0;
\* returns None without raising when the exit code is not 0 and stderr holds
\* "not found"; raises AdbError for every other exit code that is not 0.
C11_GetStatusOutcomes ==
    ret.op = "get_status" =>
        /\ ret.child.returncode = 0 =>
              /\ ret.raised = "None" /\ ~ret.isNone
              /\ Trimmed(ret.value, ret.child.stdout)
        /\ (ret.child.returncode # 0 /\ Contains(ret.child.stderr, NotFound)) =>
              ret.raised = "None" /\ ret.isNone
        /\ (ret.child.returncode # 0 /\ ~Contains(ret.child.stderr, NotFound)) =>
              /\ ret.raised = "AdbError"
              /\ ret.err = [stdout |-> ret.child.stdout, stderr |-> ret.child.stderr,
                            cmds |-> <<"get-state">>]

\* the bridge failed with the words inside a longer message, and None came back
C11_Witness ==
    /\ ret.op = "get_status" /\ ret.child.returncode = 1
    /\ Len(ret.child.stderr) > Len(NotFound)
    /\ ret.raised = "None" /\ ret.isNone

-----------------------------------------------------------------------------
(* The argv of every bridge invocation of the two clients *)

\* a serial of the form host:port names a device reached over the network
NetworkSerials == {"10.0.0.2:5555"}

\* `':' in self.device_id`
HasColon(serial) == serial \in NetworkSerials

HandleSerials == {SerialNames[1]} \cup NetworkSerials \cup {NoneV}

HandleHosts == {"127.0.0.1", "localhost", "10.0.0.9"}

HandlePorts == {5037, 5038}

Invocation(client, method, cmds, devices, guard) ==
    [client |-> client, method |-> method, cmds |-> cmds, devices |-> devices,
     guard |-> guard]

\* the calls of cmd and start_cmd in src/core/adb.py, each with the words and
\* the devices flag it passes, and the condition under which it is reached
CoreInvocations(serial) ==
    {Invocation("core", "start_server", <<"start-server">>, FALSE, TRUE),
     Invocation("core", "kill_server", <<"kill-server">>, FALSE, TRUE),
     Invocation("core", "devices", <<"devices">>, FALSE, TRUE),
     Invocation("core", "connect", <<"connect", serial>>, FALSE,
                Truthy(serial) /\ HasColon(serial)),
     Invocation("core", "disconnect", <<"disconnect", serial>>, FALSE,
                Truthy(serial) /\ HasColon(serial)),
     Invocation("core", "get_status", <<"get-state">>, TRUE, TRUE),
     Invocation("core", "start_shell", <<"shell", "ls">>, TRUE, TRUE),
     Invocation("core", "raw_shell", <<"shell", "ls">>, TRUE, TRUE),
     Invocation("core", "forward", <<"forward", "--no-rebind", LocalNames[1],
                                     "localabstract:minicap">>, TRUE, TRUE),
     Invocation("core", "remove_forward", <<"forward", "--remove", LocalNames[1]>>,
                TRUE, TRUE),
     Invocation("core", "get_forwards", <<"forward", "--list">>, FALSE, TRUE),
     Invocation("core", "push", <<"push", "a", "/data/local/tmp/a">>, TRUE, TRUE),
     Invocation("core", "pull", <<"pull", "/data/local/tmp/a", "a">>, TRUE, TRUE),
     Invocation("core", "install_app", <<"install", "-r", "a.apk">>, TRUE, TRUE)}

\* the same for src/adb.py, where devices is left at its default except for
\* start-server, kill-server and devices
CachedInvocations(serial) ==
    {Invocation("cached", "start_server", <<"start-server">>, FALSE, TRUE),
     Invocation("cached", "kill_server", <<"kill-server">>, FALSE, TRUE),
     Invocation("cached", "devices", <<"devices">>, FALSE, TRUE),
     Invocation("cached", "connect", <<"connect", serial>>, TRUE,
                Truthy(serial) /\ HasColon(serial)),
     Invocation("cached", "disconnect", <<"disconnect", serial>>, TRUE,
                Truthy(serial) /\ HasColon(serial)),
     Invocation("cached", "start_shell", <<"shell", "ls">>, TRUE, TRUE),
     Invocation("cached", "raw_shell", <<"shell", "ls">>, TRUE, TRUE),
     Invocation("cached", "forward", <<"forward", "--no-rebind", LocalNames[1],
                                       "localabstract:minicap">>, TRUE, TRUE),
     Invocation("cached", "remove_forward", <<"forward", "--remove", LocalNames[1]>>,
                TRUE, TRUE),
     Invocation("cached", "get_forwards", <<"forward", "--list">>, TRUE, TRUE),
     Invocation("cached", "push", <<"push", "a", "/data/local/tmp/a">>, TRUE, TRUE),
     Invocation("cached", "pull", <<"pull", "/data/local/tmp/a", "a">>, TRUE, TRUE),
     Invocation("cached", "_push_target_mnc",
                <<"push", "./android/x86/bin/minicap", "/data/local/tmp/minicap">>,
                TRUE, TRUE)}

InitLaunch == BaseIdle /\ LaterIdle

\* a handle is built for (serial, h, p) and one of its methods launches the bridge
Launch ==
    \E serial \in HandleSerials, h \in HandleHosts, p \in HandlePorts :
        \E inv \in CoreInvocations(serial) \cup CachedInvocations(serial) :
            LET self == [device_id |-> serial, cmd_options |-> _set_cmd_options(h, p)]
                proc == start_cmd_of(self, inv.cmds, inv.devices)
            IN  /\ inv.guard
                /\ ret' = [op |-> "start_cmd", client |-> inv.client,
                           method |-> inv.method, cmds |-> inv.cmds,
                           device_id |-> serial, host |-> h, port |-> p,
                           raised |-> proc.raised, argv |-> proc.argv]
                /\ UNCHANGED base
                /\ UNCHANGED <<os_environ, files, rp, rot, dep>>

NextLaunch == Launch

SpecLaunch == InitLaunch /\ [][NextLaunch]_vars

\* the subcommands that target a device, and those that do not
DeviceSubcommands == {"shell", "push", "pull", "install", "forward", "get-state"}

HostSubcommands == {"start-server", "kill-server", "devices", "connect", "disconnect"}

\* argv is [bridge_path, -H host?, -P port?, -s serial?, subcommand...]
ArgvForm(argv, h, p, serial, cmds) ==
    \E hopt \in {<<>>, <<"-H", h>>}, popt \in {<<>>, <<"-P", ToString(p)>>},
       sopt \in {<<>>, <<"-s", serial>>} :
        argv = <<adb_path>> \o hopt \o popt \o sopt \o cmds

HasSerialOption(argv) == ArgvSerial(SubSeq(argv, 2, Len(argv))) # NoneV

\* C12: every argv handed to the child is [bridge_path, -H host?, -P port?,
\* -s serial?, subcommand...], with -s serial exactly for the subcommands that
\* target a device (shell, push, pull, install, forward and its --remove and
\* --list, get-state) and not for start-server, kill-server, devices, connect,
\* disconnect.
C12_SerialIffDeviceSubcommand ==
    (ret.op = "start_cmd" /\ ret.raised = "None") =>
        /\ ArgvForm(ret.argv, ret.host, ret.port, ret.device_id, ret.cmds)
        /\ ret.cmds[1] \in DeviceSubcommands \cup HostSubcommands
        /\ HasSerialOption(ret.argv) <=> ret.cmds[1] \in DeviceSubcommands

\* the part of C12 that the code keeps: the form of the argv, and -s serial
\* exactly when the caller left or set devices=True
ArgvKeeps ==
    (ret.op = "start_cmd" /\ ret.raised = "None") =>
        /\ ArgvForm(ret.argv, ret.host, ret.port, ret.device_id, ret.cmds)
        /\ HasSerialOption(ret.argv) <=>
              \E inv \in CoreInvocations(ret.device_id) \cup CachedInvocations(ret.device_id) :
                  /\ inv.client = ret.client /\ inv.method = ret.method
                  /\ inv.devices

-----------------------------------------------------------------------------
(* get_display_info: the bridge-based probe of src/core/adb.py and the
   minicap-based probe of src/adb.py.  A number that Python holds as a float
   is the fraction [num, den]; for the values the probes divide (0, 90, 180,
   270 by 90) the float is the fraction exactly. *)

Frac(n, d) == [num |-> n, den |-> d]

\* a / b (true division)
TrueDiv(a, b) == Frac(a, b)

\* q * k
FracTimes(q, k) == Frac(q.num * k, q.den)

\* the number q equals the int n
FracIs(q, n) == q.num = n * q.den

\* a pattern that did not match, a key that is absent
NoMatch == -1

\* what a device reports as its orientation
Orientations == 0..3

DisplaySizes == {<<1080, 1920>>, <<720, 1280>>}

\* _ADB.getDisplayOrientation: `orientation=N` of dumpsys SurfaceFlinger, else
\* `SurfaceOrientation: N` of dumpsys input, else 0
getDisplayOrientation(sf, inp) ==
    IF sf # NoMatch THEN sf
    ELSE IF inp # NoMatch THEN inp
    ELSE 0

\* the rotation entry, without the factor
RotationOf_unscaled(orientation) == orientation

\* the rotation entry of _Device.get_display_info: orientation * 90
RotationOf(orientation) == orientation * 90

\* a DisplayInfo; hasSize says whether it holds width and height
DisplayInfo(hasSize, size, orientation, rotation, max_x, max_y) ==
    [hasSize |-> hasSize, width |-> size[1], height |-> size[2],
     orientation |-> orientation, rotation |-> rotation,
     max_x |-> max_x, max_y |-> max_y]

NoInfo == DisplayInfo(FALSE, <<0, 0>>, Frac(0, 1), 0, NoMatch, NoMatch)

\* _Device.get_display_info: getPhysicalDisplayInfo gives the size or {} when
\* none of its patterns matched; orientation and rotation are set in any case
get_display_info(sizeMatched, size, sf, inp, max_x, max_y) ==
    LET orientation == getDisplayOrientation(sf, inp)
    IN  [raised |-> "None",
         info |-> DisplayInfo(sizeMatched, IF sizeMatched THEN size ELSE <<0, 0>>,
                              Frac(orientation, 1), RotationOf(orientation),
                              max_x, max_y)]

\* _Minicap.get_display_info: `minicap -i` writes a JSON object (json: "ok"),
\* one without a rotation entry ("nokey") or no JSON at all ("garbage");
\* orientation = rotation / 90; the size is that of `wm size` when its pattern
\* matches
Minicap_get_display_info(json, mncSize, rotation, wmMatched, wmSize) ==
    IF json = "garbage" THEN [raised |-> "JSONDecodeError", info |-> NoInfo]
    ELSE IF json = "nokey" THEN [raised |-> "KeyError", info |-> NoInfo]
    ELSE [raised |-> "None",
          info |-> DisplayInfo(TRUE, IF wmMatched THEN wmSize ELSE mncSize,
                               TrueDiv(rotation, 90), rotation, NoMatch, NoMatch)]

InitDisplay == BaseIdle /\ LaterIdle

\* one call of the bridge-based probe
GetDisplayInfo ==
    \E sizeMatched \in BOOLEAN, size \in DisplaySizes,
       sf \in Orientations \cup {NoMatch}, inp \in Orientations \cup {NoMatch},
       max \in {NoMatch, 32767} :
        LET res == get_display_info(sizeMatched, size, sf, inp, max, max)
        IN  /\ ret' = [op |-> "get_display_info", probe |-> "bridge",
                       sizeMatched |-> sizeMatched, sf |-> sf, inp |-> inp,
                       raised |-> res.raised, info |-> res.info]
            /\ UNCHANGED base
            /\ UNCHANGED <<os_environ, files, rp, rot, dep>>

\* one call of the minicap-based probe
MinicapGetDisplayInfo ==
    \E json \in {"ok", "nokey", "garbage"}, mncSize \in DisplaySizes,
       orientation \in Orientations, wmMatched \in BOOLEAN, wmSize \in DisplaySizes :
        LET res == Minicap_get_display_info(json, mncSize, orientation * 90,
                                            wmMatched, wmSize)
        IN  /\ ret' = [op |-> "get_display_info", probe |-> "minicap",
                       sizeMatched |-> wmMatched, sf |-> orientation, inp |-> NoMatch,
                       raised |-> res.raised, info |-> res.info]
            /\ UNCHANGED base
            /\ UNCHANGED <<os_environ, files, rp, rot, dep>>

NextDisplay == GetDisplayInfo \/ MinicapGetDisplayInfo

SpecDisplay == InitDisplay /\ [][NextDisplay]_vars

\* C13: every DisplayInfo that get_display_info returns, from either probe and
\* whatever the device commands wrote (no size pattern matched included), has
\* rotation = orientation * 90.
C13_RotationIsOrientationTimes90 ==
    (ret.op = "get_display_info" /\ ret.raised = "None") =>
        FracIs(FracTimes(ret.info.orientation, 90), ret.info.rotation)

\* the bridge-based probe found no size and a turned display
C13_Witness ==
    /\ ret.op = "get_display_info" /\ ret.probe = "bridge" /\ ret.raised = "None"
    /\ ~ret.info.hasSize /\ ret.info.rotation = 270

-----------------------------------------------------------------------------
(* _ADB.get_available_forward_local (src/core/adb.py): a port for a forward *)

\* how many nested calls the interpreter allows before it raises
\* RecursionError (sys.getrecursionlimit(), 1000 unless changed), scaled down
MaxNesting == 3

PortLow == 11111

PortHigh == 20000

\* the ports random.randint(11111, 20000) is followed on: the two ends of the
\* range and two ports inside it
PortPool == {PortLow, PortLow + 1, 15000, PortHigh}

\* the call as it is entered: nothing chosen yet, busy the ports on which a
\* bind fails at the moment
StartReserve(busy) ==
    [pc |-> "try", depth |-> 1, busy |-> busy, port |-> 0, bound |-> FALSE,
     fails |-> 0, raised |-> "None"]

\* one activation of get_available_forward_local: choose a port, bind, close;
\* on success return the port through every activation below, on failure call
\* get_available_forward_local again, one activation deeper
TryBind(st, p) ==
    IF p \notin st.busy
    THEN [st EXCEPT !.pc = "returned", !.port = p, !.bound = TRUE]
    ELSE IF st.depth >= MaxNesting
    THEN [st EXCEPT !.pc = "raised", !.raised = "RecursionError", !.port = p,
                    !.fails = @ + 1]
    ELSE [st EXCEPT !.depth = @ + 1, !.port = p, !.fails = @ + 1]

InitReserve ==
    /\ BaseIdle
    /\ ret = IdleRet /\ os_environ = {} /\ files = {} /\ rot = IdleRot /\ dep = IdleDep
    /\ \E busy \in SUBSET PortPool : rp = StartReserve(busy)

\* one activation runs
Attempt ==
    /\ rp.pc = "try"
    /\ \E p \in PortPool : rp' = TryBind(rp, p)
    /\ UNCHANGED base
    /\ UNCHANGED <<ret, os_environ, files, rot, dep>>

\* another process binds a port, or closes the socket it held on one, while
\* the call runs
PortChanges ==
    /\ rp.pc = "try"
    /\ \E p \in PortPool :
          rp' = [rp EXCEPT !.busy = IF p \in @ THEN @ \ {p} ELSE @ \cup {p}]
    /\ UNCHANGED base
    /\ UNCHANGED <<ret, os_environ, files, rot, dep>>

NextReserve == Attempt \/ PortChanges

SpecReserve == InitReserve /\ [][NextReserve]_vars

\* C14: get_available_forward_local retries after every failed bind, for any
\* number of consecutive failures, so the call never ends in an error and
\* goes on until a bind succeeds; a port it returns is in [11111, 20000] and
\* is one on which the bind succeeded.
C14_ReserveRetriesUntilBound ==
    rp.pc # "none" =>
        /\ rp.pc \in {"try", "returned"}
        /\ rp.pc = "returned" =>
              /\ rp.port >= 11111 /\ rp.port <= 20000
              /\ rp.bound /\ rp.port \notin rp.busy

\* the part of C14 that the code keeps: whatever is returned is a port of the
\* range on which the bind succeeded, also after failed binds
ReserveKeeps ==
    rp.pc = "returned" =>
        /\ rp.port >= 11111 /\ rp.port <= 20000
        /\ rp.bound /\ rp.port \notin rp.busy

\* a port is returned after failed binds
ReturnedAfterFailedBinds == rp.pc = "returned" /\ rp.fails = MaxNesting - 1

-----------------------------------------------------------------------------
(* The facade and its rotation watcher (src/core/run.py, Android.__init__).
   The watcher reads the on-device agent's output in a background task of its
   own, which runs from start() on, beside the thread that runs __init__. *)

\* how many orientation events the watcher emits
MaxEvents == 2

TouchMethods == {"minitouch", "maxtouch", "adbtouch"}

CapMethods == {"minicap", "javacap", "adbcap"}

\* Android.__init__: minitouch becomes maxtouch from Android 10 on
SelectTouch(touch_method, android10) ==
    IF android10 /\ touch_method = "minitouch" THEN "maxtouch" ELSE touch_method

\* Android._get_touch_method: the backend object of the selected method
_get_touch_method(touch_method) ==
    IF touch_method = "maxtouch" THEN "maxtouch"
    ELSE IF touch_method = "minitouch" THEN "minitouch"
    ELSE "EVENTTOUCH"

\* the object a registered callback calls update_rotation on
CallbackTarget(cb, touch_method) ==
    IF cb = "touch" THEN _get_touch_method(touch_method) ELSE "minicap"

\* the facade as Rotation(self.adb) has been built and not yet started
BuiltFacade(touch_method, cap_method) ==
    [pc |-> "built", touch_method |-> touch_method, cap_method |-> cap_method,
     running |-> FALSE, callbacks |-> <<>>, last |-> NoMatch,
     emitted |-> <<>>, delivered |-> <<>>]

\* the watcher's task on a new orientation r: every callback registered at
\* that moment is called with r, in registration order
Notify(st, r) ==
    [st EXCEPT
        !.last = r,
        !.emitted = Append(@, [r |-> r, registered |-> Len(st.callbacks)]),
        !.delivered = @ \o [i \in 1..Len(st.callbacks) |->
                               [to |-> CallbackTarget(st.callbacks[i], st.touch_method),
                                event |-> Len(st.emitted) + 1,
                                rotation |-> r * 90]]]

InitRotation ==
    /\ BaseIdle
    /\ ret = IdleRet /\ os_environ = {} /\ files = {} /\ rp = IdleRp /\ dep = IdleDep
    /\ \E touch_method \in TouchMethods, android10 \in BOOLEAN, cap_method \in CapMethods :
          rot = BuiltFacade(SelectTouch(touch_method, android10), cap_method)

\* self.rotation_watcher.start()
StartWatcher ==
    /\ rot.pc = "built"
    /\ rot' = [rot EXCEPT !.pc = "started", !.running = TRUE]
    /\ UNCHANGED base
    /\ UNCHANGED <<ret, os_environ, files, rp, dep>>

\* _register_rotation_watcher: the touch callback
RegisterTouch ==
    /\ rot.pc = "started"
    /\ rot' = [rot EXCEPT !.pc = "touch_registered", !.callbacks = Append(@, "touch")]
    /\ UNCHANGED base
    /\ UNCHANGED <<ret, os_environ, files, rp, dep>>

\* _register_rotation_watcher: the capture callback, when the method is minicap
RegisterCapture ==
    /\ rot.pc = "touch_registered"
    /\ rot' = [rot EXCEPT !.pc = "done",
                          !.callbacks = IF rot.cap_method = "minicap"
                                        THEN Append(@, "capture") ELSE @]
    /\ UNCHANGED base
    /\ UNCHANGED <<ret, os_environ, files, rp, dep>>

\* the watcher's task reads a new orientation from the agent
Emit ==
    /\ rot.pc # "none" /\ rot.running
    /\ Len(rot.emitted) < MaxEvents
    /\ \E r \in Orientations : r # rot.last /\ rot' = Notify(rot, r)
    /\ UNCHANGED base
    /\ UNCHANGED <<ret, os_environ, files, rp, dep>>

NextRotation == StartWatcher \/ RegisterTouch \/ RegisterCapture \/ Emit

SpecRotation == InitRotation /\ [][NextRotation]_vars

\* what the object `to` was given, in order
Received(st, to) == SelectSeq(st.delivered, LAMBDA d : d.to = to)

\* the object was given update_rotation(r * 90) once for every event, in
\* emission order
ReceivedEveryEvent(st, to) ==
    /\ Len(Received(st, to)) = Len(st.emitted)
    /\ \A k \in 1..Len(st.emitted) :
          /\ Received(st, to)[k].event = k
          /\ Received(st, to)[k].rotation = st.emitted[k].r * 90

\* of every event, the touch backend was called before the capture backend
TouchBeforeCapture(st) ==
    \A i, j \in 1..Len(st.delivered) :
        (/\ st.delivered[i].event = st.delivered[j].event
         /\ st.delivered[i].to # "minicap" /\ st.delivered[j].to = "minicap") => i < j

\* C15: of every orientation event r that the watcher emits after the facade
\* started it, the selected touch backend and, when the capture method is
\* minicap, the capture backend receive update_rotation(r * 90) exactly once,
\* in emission order, touch before capture; no event emitted after start is
\* missed.
C15_EveryEventReachesObservers ==
    rot.pc # "none" =>
        /\ ReceivedEveryEvent(rot, _get_touch_method(rot.touch_method))
        /\ rot.cap_method = "minicap" => ReceivedEveryEvent(rot, "minicap")
        /\ TouchBeforeCapture(rot)

\* the part of C15 that the code keeps: an event reaches, once and in order,
\* the observers registered when it is emitted, touch before capture
RotationKeeps ==
    rot.pc # "none" =>
        /\ \A k \in 1..Len(rot.emitted) :
              /\ Cardinality({i \in 1..Len(rot.delivered) : rot.delivered[i].event = k})
                    = rot.emitted[k].registered
              /\ \A i \in 1..Len(rot.delivered) :
                    rot.delivered[i].event = k =>
                        rot.delivered[i].rotation = rot.emitted[k].r * 90
        /\ \A i, j \in 1..Len(rot.delivered) :
              i < j => rot.delivered[i].event <= rot.delivered[j].event
        /\ TouchBeforeCapture(rot)

\* an event emitted after both registrations reached touch and capture
EventReachedBoth ==
    /\ rot.pc = "done" /\ Len(rot.emitted) = 1 /\ Len(rot.delivered) = 2

-----------------------------------------------------------------------------
(* _Device.screenshot (src/core/adb.py): the raw screenshot pulled to the host *)

\* the largest width, height and Rect component the model draws
MaxSide == 2

\* self._cap_raw_remote_path: the host path the raw file is pulled to
raw_remote_path == "tmp/emulator-5554/screencap.raw"

\* the Rect argument: None, or (x, y, width, height)
NoRect == <<>>

Rects == {NoRect} \cup [1..4 -> 0..MaxSide]

\* the screens the raw file's header describes: (width, height) in pixels
Screens == (1..MaxSide) \X (1..MaxSide)

\* where seq[a:b] puts an index k of a sequence of n items: a negative k
\* counts from the end, and the result is kept within 0..n
SliceBound(n, k) ==
    IF k < 0 THEN (IF n + k < 0 THEN 0 ELSE n + k) ELSE Min(k, n)

\* len(seq[a:b]) for a sequence of n items
SliceLen(n, a, b) ==
    IF SliceBound(n, b) > SliceBound(n, a)
    THEN SliceBound(n, b) - SliceBound(n, a) ELSE 0

\* the Rect test of screenshot; the code's `width` is the third 16-bit word of
\* the file and its `height` the first
RectOverflows(Rect, width, height) ==
    \/ Rect[1] > height
    \/ Rect[2] > width
    \/ Rect[1] + Rect[3] > height
    \/ Rect[2] + Rect[4] > width

ShotResult(raised, fs, pulled) == [raised |-> raised, files |-> fs, pulled |-> pulled]

\* _Device.screenshot on a device whose screencap wrote a raw file for screen;
\* capOk and pullOk say whether `screencap` and `pull` returned code 0
screenshot(fs, Rect, screen, capOk, pullOk) ==
    LET width == screen[2]
        height == screen[1]
        pulled == fs \cup {raw_remote_path}
        n == screen[1] * screen[2] * 4
        index == Rect[1] * 4 + Rect[2] * height * 4
        end == (Rect[1] + Rect[3]) * 4 + (Rect[2] + Rect[4] - 1) * height * 4
    IN  IF ~capOk THEN ShotResult("AdbError", fs, FALSE)
        ELSE IF ~pullOk THEN ShotResult("AdbError", fs, FALSE)
        ELSE IF Rect # NoRect
        THEN IF RectOverflows(Rect, width, height)
             THEN ShotResult("OverflowError", pulled, TRUE)
             ELSE IF SliceLen(n, index, end) # Rect[4] * Rect[3] * 4
             THEN ShotResult("ValueError", pulled, TRUE)
             ELSE ShotResult("None", pulled \ {raw_remote_path}, TRUE)
        ELSE ShotResult("None", pulled \ {raw_remote_path}, TRUE)

InitShot ==
    /\ BaseIdle
    /\ ret = IdleRet /\ os_environ = {} /\ files = {}
    /\ rp = IdleRp /\ rot = IdleRot /\ dep = IdleDep

\* one call screenshot(Rect)
Screenshot ==
    \E Rect \in Rects, screen \in Screens, capOk \in BOOLEAN, pullOk \in BOOLEAN :
        LET res == screenshot(files, Rect, screen, capOk, pullOk)
        IN  /\ ret' = [op |-> "screenshot", Rect |-> Rect, screen |-> screen,
                       raised |-> res.raised, pulled |-> res.pulled]
            /\ files' = res.files
            /\ UNCHANGED base
            /\ UNCHANGED <<os_environ, rp, rot, dep>>

NextShot == Screenshot

SpecShot == InitShot /\ [][NextShot]_vars

\* C16: on every exit path of screenshot(Rect) reached after the raw file was
\* pulled to the host (the normal return, the OverflowError for a Rect outside
\* the screen), the temporary host file no longer exists when the call ends.
C16_TempFileDeleted ==
    (ret.op = "screenshot" /\ ret.pulled) => raw_remote_path \notin files

\* the part of C16 that the code keeps: the normal return deletes the file
ShotKeeps ==
    (ret.op = "screenshot" /\ ret.pulled /\ ret.raised = "None") =>
        raw_remote_path \notin files

\* a call with a Rect inside the screen returned
ReturnedWithRect ==
    ret.op = "screenshot" /\ ret.raised = "None" /\ ret.Rect # NoRect

-----------------------------------------------------------------------------
(* Constructing the bridge client: __init__, builtin_adb_path *)

\* the bundled bridge tools, by platform key
DEFAULT_ADB_PATH ==
    [k \in {"Windows", "Darwin", "Linux", "Linux-x86_64", "Linux-armv7l"} |->
        CASE k = "Windows" -> "static/adb/windows/adb.exe"
          [] k = "Darwin" -> "static/adb/mac/adb"
          [] k = "Linux-armv7l" -> "static/adb/linux_arm/adb"
          [] OTHER -> "static/adb/linux/adb"]

\* dict.get(key): None for a key the dict does not hold
DictGet(d, k) == IF k \in DOMAIN d THEN d[k] ELSE NoneV

\* (platform.system(), platform.machine()) of the hosts that are modelled
Platforms ==
    {<<"Windows", "AMD64">>, <<"Linux", "x86_64">>, <<"Linux", "aarch64">>,
     <<"FreeBSD", "amd64">>}

\* names of the process's environment variables
EnvNames == {"ANDROID_HOME", "ANDROID_SDK_ROOT", "PATH"}

\* the adb_path argument of the constructor
PathArgs == {NoneV, "", "/opt/platform-tools/adb"}

\* builtin_adb_path(): the bundled tool of this platform; ANDROID_HOME is
\* deleted on the way out
builtin_adb_path(environ, platform) ==
    LET system == platform[1]
        machine == platform[2]
        first == DictGet(DEFAULT_ADB_PATH, system \o "-" \o machine)
        found == IF ~Truthy(first) THEN DictGet(DEFAULT_ADB_PATH, system)
                 ELSE first
    IN  IF ~Truthy(found)
        THEN [raised |-> "RuntimeError", adb_path |-> NoneV, environ |-> environ]
        ELSE [raised |-> "None", adb_path |-> found,
              environ |-> IF "ANDROID_HOME" \in environ
                          THEN environ \ {"ANDROID_HOME"} ELSE environ]

\* __init__(device_id, adb_path, host, port): `adb_path or
\* self.builtin_adb_path()` calls builtin_adb_path only for a falsy argument;
\* restOk says whether the calls that follow (connect, sdk_version, ...) return
ADB_init(environ, path, platform, restOk) ==
    LET chosen == IF Truthy(path)
                  THEN [raised |-> "None", adb_path |-> path, environ |-> environ]
                  ELSE builtin_adb_path(environ, platform)
    IN  IF chosen.raised # "None" THEN chosen
        ELSE IF ~restOk THEN [chosen EXCEPT !.raised = "AdbError"]
        ELSE chosen

InitConstruct ==
    /\ BaseIdle
    /\ ret = IdleRet /\ os_environ \in SUBSET EnvNames /\ files = {}
    /\ rp = IdleRp /\ rot = IdleRot /\ dep = IdleDep

\* one construction of a client
NewClient ==
    \E path \in PathArgs, platform \in Platforms, restOk \in BOOLEAN :
        LET res == ADB_init(os_environ, path, platform, restOk)
        IN  /\ ret' = [op |-> "__init__", arg |-> path, platform |-> platform,
                       raised |-> res.raised, adb_path |-> res.adb_path]
            /\ os_environ' = res.environ
            /\ UNCHANGED base
            /\ UNCHANGED <<files, rp, rot, dep>>

NextConstruct == NewClient

SpecConstruct == InitConstruct /\ [][NextConstruct]_vars

\* C17: after the construction of the bridge client completes, ANDROID_HOME is
\* not in the environment, whatever the constructor's arguments were, an
\* explicit adb_path included.
C17_AndroidHomeUnset ==
    (ret.op = "__init__" /\ ret.raised = "None") =>
        "ANDROID_HOME" \notin os_environ

\* the part of C17 that the code keeps: a construction that fell back on the
\* bundled tool leaves ANDROID_HOME unset and the other variables alone
ConstructKeeps ==
    (ret.op = "__init__" /\ ret.raised = "None" /\ ~Truthy(ret.arg)) =>
        /\ "ANDROID_HOME" \notin os_environ
        /\ ret.adb_path = DictGet(DEFAULT_ADB_PATH,
               IF ret.platform[1] = "Windows" THEN "Windows" ELSE "Linux")

\* a construction with an explicit adb_path completed
ConstructedWithExplicitPath ==
    ret.op = "__init__" /\ ret.raised = "None" /\ Truthy(ret.arg)

-----------------------------------------------------------------------------
(* Looking a forward up: _local_in_forwards with both arguments *)

Clients == {"_ADB", "ADB"}

\* the list a client's _local_in_forwards walks
Listing(client, fw) ==
    IF client = "_ADB" THEN get_forwards(fw) ELSE ADB_get_forwards(fw)

InitLookup ==
    /\ live \in ForwardLists
    /\ cache = <<>> /\ call = IdleCall /\ prev = Brief(IdleCall)
    /\ OtherSubsystemsIdle

\* one call _local_in_forwards(local, remote)
Lookup ==
    \E client \in Clients, local \in Locals, remote \in Remotes :
        LET r == IF client = "_ADB" THEN _local_in_forwards(live, local, remote)
                 ELSE ADB_local_in_forwards(live, local, remote)
        IN  /\ ret' = [op |-> "_local_in_forwards", client |-> client,
                       local |-> local, remote |-> remote,
                       is_use |-> r.is_use, index |-> r.index]
            /\ UNCHANGED base
            /\ UNCHANGED <<os_environ, files, rp, rot, dep>>

NextLookup == Lookup

SpecLookup == InitLookup /\ [][NextLookup]_vars

\* 0-based indices of the entries whose local, whose remote is the argument
LocalHits(l, local) == {i - 1 : i \in {j \in 1..Len(l) : l[j].local = local}}

RemoteHits(l, remote) == {i - 1 : i \in {j \in 1..Len(l) : l[j].remote = remote}}

\* C18: _local_in_forwards(local, remote) with both arguments supplied returns
\* the index of an entry whose local matches whenever the list holds one,
\* wherever it sits; otherwise the first entry whose remote matches; otherwise
\* not-found.
C18_LocalMatchTakesPrecedence ==
    ret.op = "_local_in_forwards" =>
        LET l == Listing(ret.client, live)
            byLocal == LocalHits(l, ret.local)
            byRemote == RemoteHits(l, ret.remote)
        IN  IF byLocal # {} THEN ret.is_use /\ ret.index \in byLocal
            ELSE IF byRemote # {} THEN ret.is_use /\ ret.index = SetMin(byRemote)
            ELSE ~ret.is_use

\* the part of C18 that the code keeps: the result is the first entry that
\* matches either argument, and not-found only when no entry matches
LookupKeeps ==
    ret.op = "_local_in_forwards" =>
        LET l == Listing(ret.client, live)
            either == LocalHits(l, ret.local) \cup RemoteHits(l, ret.remote)
        IN  IF either # {} THEN ret.is_use /\ ret.index = SetMin(either)
            ELSE ~ret.is_use /\ ret.index = -1

\* a lookup in a list where one entry matches only remote and a later one
\* matches local
LookupWithBothKinds ==
    /\ ret.op = "_local_in_forwards"
    /\ LET l == Listing(ret.client, live)
       IN  \E i \in RemoteHits(l, ret.remote) \ LocalHits(l, ret.local) :
               \E j \in LocalHits(l, ret.local) : i < j

-----------------------------------------------------------------------------
(* Launching the capture agent: start_mnc_server *)

MNC_CMD == "LD_LIBRARY_PATH=/data/local/tmp /data/local/tmp/minicap"

\* ADB.start_shell: the argv of the child it starts
start_shell(cmds) == start_cmd(<<"shell">> \o cmds, TRUE)

\* the sizes `minicap -i` and `wm size` report
AgentSizes == DisplaySizes \cup {<<1920, 1080>>, <<1440, 2560>>, <<480, 800>>}

\* the projection with the orientation as its last number
Projection_orientation(width, height, rotation) ==
    Decimal(width) \o <<"x">> \o Decimal(height) \o <<"@">>
        \o Decimal(width) \o <<"x">> \o Decimal(height) \o <<"/">>
        \o Decimal(rotation \div 90)

\* '%dx%d@%dx%d/%d' % (width, height, width, height, rotation)
Projection(width, height, rotation) ==
    Decimal(width) \o <<"x">> \o Decimal(height) \o <<"@">>
        \o Decimal(width) \o <<"x">> \o Decimal(height) \o <<"/">>
        \o Decimal(rotation)

\* ADB.start_mnc_server: query the display, then start the agent in a shell
\* child that is not waited for
start_mnc_server(json, mncSize, rotation, wmMatched, wmSize) ==
    LET q == Minicap_get_display_info(json, mncSize, rotation, wmMatched, wmSize)
    IN  IF q.raised # "None"
        THEN [raised |-> q.raised, info |-> q.info, cmds |-> <<>>, argv |-> <<>>]
        ELSE LET cmds == <<MNC_CMD, "-P",
                           Projection(q.info.width, q.info.height, q.info.rotation)>>
                 child == start_shell(cmds)
             IN  [raised |-> child.raised, info |-> q.info, cmds |-> cmds,
                  argv |-> child.argv]

InitAgent == BaseIdle /\ LaterIdle

\* one launch of the capture agent
StartMncServer ==
    \E json \in {"ok", "nokey", "garbage"}, mncSize \in AgentSizes,
       orientation \in Orientations, wmMatched \in BOOLEAN, wmSize \in AgentSizes :
        LET res == start_mnc_server(json, mncSize, orientation * 90, wmMatched, wmSize)
        IN  /\ ret' = [op |-> "start_mnc_server", mnc |-> mncSize,
                       wm |-> IF wmMatched THEN wmSize ELSE <<>>,
                       raised |-> res.raised, info |-> res.info,
                       cmds |-> res.cmds, argv |-> res.argv]
            /\ UNCHANGED base
            /\ UNCHANGED <<os_environ, files, rp, rot, dep>>

NextAgent == StartMncServer

SpecAgent == InitAgent /\ [][NextAgent]_vars

\* where the first ch of text is, Len(text) + 1 when there is none
IndexOf(text, ch) ==
    CHOOSE i \in 1..(Len(text) + 1) :
        /\ i = Len(text) + 1 \/ text[i] = ch
        /\ \A j \in 1..(i - 1) : text[j] # ch

UpTo(text, ch) == SubSeq(text, 1, IndexOf(text, ch) - 1)

After(text, ch) == SubSeq(text, IndexOf(text, ch) + 1, Len(text))

\* the five numbers of a projection 'WxH@WxH/R', read back from its text
ProjectionParts(arg) ==
    LET real == UpTo(arg, "@")
        virtual == UpTo(After(arg, "@"), "/")
    IN  [w |-> ParseInt(UpTo(real, "x")), h |-> ParseInt(After(real, "x")),
         vw |-> ParseInt(UpTo(virtual, "x")), vh |-> ParseInt(After(virtual, "x")),
         r |-> ParseInt(After(After(arg, "@"), "/"))]

\* the size start_mnc_server has queried: that of `wm size` when it answered,
\* else that of `minicap -i`
QueriedSize == IF ret.wm # <<>> THEN ret.wm ELSE ret.mnc

\* the launch is [MNC_CMD, '-P', 'WxH@WxH/...'] with the queried width and height
LaunchedWithQueriedSize ==
    /\ ret.cmds[1] = MNC_CMD /\ ret.cmds[2] = "-P" /\ Len(ret.cmds) = 3
    /\ LET p == ProjectionParts(ret.cmds[3])
       IN  /\ <<p.w, p.h>> = QueriedSize
           /\ <<p.vw, p.vh>> = QueriedSize

\* C19 as stated: the capture agent is launched with 'WxH@WxH/R', W and H the
\* queried width and height and R = rotation/90, an orientation in 0..3, for
\* every rotation in {0, 90, 180, 270}.
C19_LaunchedWithOrientation ==
    (ret.op = "start_mnc_server" /\ ret.raised = "None") =>
        /\ LaunchedWithQueriedSize
        /\ ProjectionParts(ret.cmds[3]).r \in 0..3
        /\ ProjectionParts(ret.cmds[3]).r * 90 = ret.info.rotation

\* C19 as amended: the capture agent is launched with 'WxH@WxH/R', W and H the
\* queried width and height and R the rotation itself, in degrees, for every
\* rotation in {0, 90, 180, 270}.
C19_LaunchedWithRotation ==
    (ret.op = "start_mnc_server" /\ ret.raised = "None") =>
        /\ LaunchedWithQueriedSize
        /\ ProjectionParts(ret.cmds[3]).r = ret.info.rotation

\* a launch on a device turned to 270 degrees whose `wm size` answered
C19_Witness ==
    /\ ret.op = "start_mnc_server" /\ ret.raised = "None"
    /\ ret.info.rotation = 270 /\ ret.wm # <<>> /\ ret.wm # ret.mnc
    /\ ret.argv = <<adb_path, "-s", device_id, "shell">> \o ret.cmds

-----------------------------------------------------------------------------
(* Deploying the capture agent: _push_target_mnc, _push_target_mnc_so.
   start_cmd and start_shell return as soon as the child is started; the
   children then run beside the caller. *)

MNC_HOME == "/data/local/tmp/minicap"

MNC_SO_HOME == "/data/local/tmp/minicap.so"

\* the device paths, in the order the two functions are called
Targets == <<MNC_HOME, MNC_SO_HOME>>

\* the statements of the two functions, in program order: the file each is
\* about and what it does
Steps ==
    <<[path |-> MNC_HOME, does |-> "push"], [path |-> MNC_HOME, does |-> "chmod"],
      [path |-> MNC_HOME, does |-> "log"], [path |-> MNC_SO_HOME, does |-> "push"],
      [path |-> MNC_SO_HOME, does |-> "chmod"], [path |-> MNC_SO_HOME, does |-> "log"]>>

TargetSet == {Targets[i] : i \in 1..Len(Targets)}

\* before _push_target_mnc: no child started, the device paths absent or
\* holding the file of an earlier deployment
StartDeploy(device) ==
    [pc |-> 1,
     push |-> [f \in TargetSet |-> "unstarted"],
     chmod |-> [f \in TargetSet |-> "unstarted"],
     reported |-> {},
     device |-> device,
     mode |-> [f \in TargetSet |-> IF device[f] = "absent" THEN "none" ELSE "777"]]

InitDeploy ==
    /\ BaseIdle
    /\ ret = IdleRet /\ os_environ = {} /\ files = {}
    /\ rp = IdleRp /\ rot = IdleRot
    /\ \E device \in [TargetSet -> {"absent", "stale"}] : dep = StartDeploy(device)

AtStep(does) == dep.pc <= Len(Steps) /\ Steps[dep.pc].does = does

\* self.start_cmd(['push', path, self.MNC_HOME]): the child is started, not
\* waited for
StartPush ==
    /\ AtStep("push")
    /\ start_cmd(<<"push", "./android/minicap", Steps[dep.pc].path>>, TRUE).raised = "None"
    /\ dep' = [dep EXCEPT !.pc = @ + 1, !.push[Steps[dep.pc].path] = "running"]
    /\ UNCHANGED base
    /\ UNCHANGED <<ret, os_environ, files, rp, rot>>

\* self.start_shell(['chmod', '777', self.MNC_HOME]): likewise
StartChmod ==
    /\ AtStep("chmod")
    /\ start_shell(<<"chmod", "777", Steps[dep.pc].path>>).raised = "None"
    /\ dep' = [dep EXCEPT !.pc = @ + 1, !.chmod[Steps[dep.pc].path] = "running"]
    /\ UNCHANGED base
    /\ UNCHANGED <<ret, os_environ, files, rp, rot>>

\* logger.debug('minicap installed in ...')
Report ==
    /\ AtStep("log")
    /\ dep' = [dep EXCEPT !.pc = @ + 1, !.reported = @ \cup {Steps[dep.pc].path}]
    /\ UNCHANGED base
    /\ UNCHANGED <<ret, os_environ, files, rp, rot>>

\* the push child creates the device file, with the mode of the host's file
PushWrite ==
    \E f \in TargetSet :
        /\ dep.push[f] = "running" /\ dep.device[f] # "partial"
        /\ dep' = [dep EXCEPT !.device[f] = "partial", !.mode[f] = "host"]
        /\ UNCHANGED base
        /\ UNCHANGED <<ret, os_environ, files, rp, rot>>

\* the push child has sent the whole file and exits
PushFinish ==
    \E f \in TargetSet :
        /\ dep.push[f] = "running" /\ dep.device[f] = "partial"
        /\ dep' = [dep EXCEPT !.device[f] = "complete", !.push[f] = "done"]
        /\ UNCHANGED base
        /\ UNCHANGED <<ret, os_environ, files, rp, rot>>

\* the chmod child runs on the device: it changes the mode of what is at the
\* path now, and fails when nothing is
ChmodRun ==
    \E f \in TargetSet :
        /\ dep.chmod[f] = "running"
        /\ dep' = [dep EXCEPT !.chmod[f] = "done",
                              !.mode[f] = IF dep.device[f] = "absent" THEN @ ELSE "777"]
        /\ UNCHANGED base
        /\ UNCHANGED <<ret, os_environ, files, rp, rot>>

NextDeploy ==
    StartPush \/ StartChmod \/ Report \/ PushWrite \/ PushFinish \/ ChmodRun

SpecDeploy == InitDeploy /\ [][NextDeploy]_vars

\* C20: for the executable and for the shared object, the chmod of the device
\* path starts only after the push of that file has completed, the install is
\* reported only after the chmod has completed, and chmod never runs against
\* a path whose push has not finished.
C20_DeployStepsInOrder ==
    "push" \in DOMAIN dep =>
        \A f \in TargetSet :
            /\ dep.chmod[f] # "unstarted" => dep.push[f] = "done"
            /\ f \in dep.reported => dep.chmod[f] = "done"

\* the part of C20 that the code keeps: the children of one file are started
\* in program order, push, then chmod, then the report
DeployKeeps ==
    "push" \in DOMAIN dep =>
        \A f \in TargetSet :
            /\ dep.chmod[f] # "unstarted" => dep.push[f] # "unstarted"
            /\ f \in dep.reported => dep.chmod[f] # "unstarted"
            /\ dep.push[MNC_SO_HOME] # "unstarted" => MNC_HOME \in dep.reported

\* both installs were reported and every child has exited, yet a file is left
\* without the mode chmod was to give it
DeployedWithoutMode ==
    /\ dep.pc = Len(Steps) + 1
    /\ \A f \in TargetSet : dep.push[f] = "done" /\ dep.chmod[f] = "done"
    /\ \E f \in TargetSet : dep.mode[f] # "777"

-----------------------------------------------------------------------------
(* The cached client alone on the bridge: forward, set_forward and
   remove_forward made through one ADB object, no other party *)

\* 'tcp:%s' % localport
TcpName(localport) == "tcp:" \o ToString(localport)

\* the ports get_available_forward_local hands out here
LocalPorts == {PortLow + i - 1 : i \in 1..NumLocals}

\* ADB.set_forward: forward('tcp:<port>', remote) on the port just reserved
ADB_set_forward(fw, using, localport, remote, bindOk) ==
    ADB_forward(fw, using, TcpName(localport), remote, TRUE, bindOk)

CachedSetForward ==
    \E localport \in LocalPorts, remote \in Remotes, bindOk \in BOOLEAN :
        LET res == ADB_set_forward(live, cache, localport, remote, bindOk)
        IN  /\ Len(cache) < MaxCache
            /\ live' = res.fw
            /\ cache' = res.using
            /\ call' = [op |-> "set_forward", local |-> TcpName(localport),
                        remote |-> remote, no_rebind |-> TRUE, raised |-> res.raised,
                        before |-> live, issued |-> res.issued]
            /\ prev' = Brief(call)
            /\ UNCHANGED <<run, sh, cap>> /\ UNCHANGED later

NextCachedAlone == CachedForward \/ CachedSetForward \/ CachedRemoveForward

SpecCachedAlone == InitCached /\ [][NextCachedAlone]_vars

\* a call that raised has changed neither the cache nor the live list, so the
\* states after the successful calls are all the states there are
FailedCallChangesNothing ==
    [][call'.raised # "None" => (live' = live /\ cache' = cache)]_vars

\* C21: in the cached client, after any sequence of successful forward,
\* set_forward, remove_forward(local) and remove_forward(None) calls through
\* one ADB object, nobody else changing the bridge, the cache
\* _forward_local_using holds exactly the entries of the live `forward
\* --list`: a removed local is gone from it, and remove_forward(None) leaves
\* it empty.
C21_CacheIsLiveList ==
    (call.op # "none" /\ call.raised = "None") =>
        /\ cache = ADB_get_forwards(live)
        /\ (call.op = "remove_forward" /\ Truthy(call.local)) =>
               \A i \in 1..Len(cache) : cache[i].local # call.local
        /\ (call.op = "remove_forward" /\ ~Truthy(call.local)) => cache = <<>>

\* the part of C21 that the code keeps: a successful forward or set_forward
\* made while the cache is the live list leaves it the live list
CachedForwardKeeps ==
    [][(call'.op \in {"forward", "set_forward"} /\ call'.raised = "None"
            /\ cache = ADB_get_forwards(live))
        => cache' = ADB_get_forwards(live')]_vars

\* a forward was removed with success and the cache still holds it
RemovedStaysCached ==
    /\ call.op = "remove_forward" /\ call.raised = "None" /\ Truthy(call.local)
    /\ \E i \in 1..Len(cache) : cache[i].local = call.local

-----------------------------------------------------------------------------
(* The port of the capture agent: set_minicap_port *)

\* int(re.compile(r'tcp:(\d+)').findall(local)[0]); NoMatch when the pattern
\* finds nothing and [0] raises IndexError
PortOf(local) ==
    IF \E p \in LocalPorts : TcpName(p) = local
    THEN CHOOSE p \in LocalPorts : TcpName(p) = local
    ELSE NoMatch

\* the last statement of set_minicap_port: s is what set_forward left, index
\* what _local_in_forwards returned; the port is read from the CACHE entry at
\* the index of the live list
MinicapPortAt(s, index, port_before) ==
    IF s.raised # "None"
    THEN [raised |-> s.raised, fw |-> s.fw, using |-> s.using,
          MNC_PORT |-> port_before]
    ELSE IF ~PyInRange(s.using, index.index)
    THEN [raised |-> "IndexError", fw |-> s.fw, using |-> s.using,
          MNC_PORT |-> port_before]
    ELSE IF PortOf(PyAt(s.using, index.index).local) = NoMatch
    THEN [raised |-> "IndexError", fw |-> s.fw, using |-> s.using,
          MNC_PORT |-> port_before]
    ELSE [raised |-> "None", fw |-> s.fw, using |-> s.using,
          MNC_PORT |-> PortOf(PyAt(s.using, index.index).local)]

\* the index of the first live entry with the agent's remote, looked up after
\* set_forward
MinicapPortAfter(s, port_before) ==
    MinicapPortAt(s, ADB_local_in_forwards(s.fw, NoneV, "localabstract:minicap"),
                  port_before)

\* _Minicap.set_minicap_port; port_before is MNC_PORT before the call
set_minicap_port(fw, using, port_before, localport, bindOk) ==
    MinicapPortAfter(
        ADB_set_forward(fw, using, localport, "localabstract:minicap", bindOk),
        port_before)

\* MNC_PORT as the object holds it: the class attribute until a call sets it
MNC_PORT == IF ret = IdleRet THEN 0 ELSE ret.MNC_PORT

\* one call set_minicap_port(); the port reserved is one the bridge does not
\* listen on, since get_available_forward_local could bind it
SetMinicapPort ==
    \E localport \in LocalPorts, bindOk \in BOOLEAN :
        LET res == set_minicap_port(live, cache, MNC_PORT, localport, bindOk)
        IN  /\ Len(cache) < MaxCache
            /\ ~HasLocal(live, TcpName(localport))
            /\ live' = res.fw
            /\ cache' = res.using
            /\ call' = [op |-> "set_minicap_port", local |-> TcpName(localport),
                        remote |-> "localabstract:minicap", no_rebind |-> TRUE,
                        raised |-> res.raised, before |-> live, issued |-> <<>>]
            /\ prev' = Brief(call)
            /\ ret' = [op |-> "set_minicap_port", MNC_PORT |-> res.MNC_PORT]
            /\ UNCHANGED <<run, sh, cap, os_environ, files, rp, rot, dep>>

NextMinicapPort == CachedRemoveForward \/ OtherParty \/ SetMinicapPort

SpecMinicapPort == InitCached /\ [][NextMinicapPort]_vars

\* MNC_PORT is the port of a live forward to the capture agent
PortIsOfLiveMinicap ==
    \E i \in 1..Len(live) :
        /\ live[i].remote = "localabstract:minicap"
        /\ live[i].local = TcpName(MNC_PORT)

\* C22: after set_minicap_port returns, MNC_PORT is the TCP port of the live
\* forward whose remote is localabstract:minicap, from every reachable state of
\* the cache and the live list; the index taken from the live list is never
\* out of range for the cache.
C22_PortIsLiveMinicapPort ==
    call.op = "set_minicap_port" =>
        /\ call.raised # "IndexError"
        /\ call.raised = "None" => PortIsOfLiveMinicap

\* the part of C22 that the code keeps: a call made while the cache is the
\* live list sets MNC_PORT to the port of a live forward to the agent
MinicapPortKeeps ==
    [][(call'.op = "set_minicap_port" /\ cache = ADB_get_forwards(live))
        => (call'.raised # "IndexError"
            /\ (call'.raised = "None" => PortIsOfLiveMinicap'))]_vars

\* set_minicap_port returned with the port of a forward that is not live
PortOfRemovedForward ==
    /\ call.op = "set_minicap_port" /\ call.raised = "None"
    /\ ~HasLocal(live, TcpName(MNC_PORT))

-----------------------------------------------------------------------------
(* The core client's set_forward *)

\* _ADB.set_forward: forward('tcp:<port>', remote) on the port just reserved,
\* then return (localport, remote)
set_forward(fw, localport, remote, bindOk) ==
    [out |-> forward(fw, TcpName(localport), remote, TRUE, bindOk),
     value |-> <<localport, remote>>]

\* one call set_forward(remote); the port reserved is one the bridge does not
\* listen on, since get_available_forward_local could bind it
SetForward ==
    \E localport \in LocalPorts, remote \in Remotes, bindOk \in BOOLEAN :
        LET res == set_forward(live, localport, remote, bindOk)
        IN  /\ ~HasLocal(live, TcpName(localport))
            /\ live' = res.out.fw
            /\ call' = [op |-> "set_forward", local |-> TcpName(localport),
                        remote |-> remote, no_rebind |-> TRUE,
                        raised |-> res.out.raised, before |-> live,
                        issued |-> res.out.issued]
            /\ prev' = Brief(call)
            /\ ret' = [op |-> "set_forward", value |-> res.value]
            /\ UNCHANGED <<cache, run, sh, cap, os_environ, files, rp, rot, dep>>

NextSetForward == SetForward \/ RemoveForward

SpecSetForward == InitForward /\ [][NextSetForward]_vars

\* the live list holds tcp:p -> remote for the pair set_forward returned
ReturnedPairIsLive ==
    \E i \in 1..Len(get_forwards(live)) :
        /\ get_forwards(live)[i].local = TcpName(ret.value[1])
        /\ get_forwards(live)[i].remote = ret.value[2]

\* C23: whenever set_forward(remote) returns (p, remote) without error, the
\* live forward list contains the entry tcp:p -> remote, from every initial
\* list, one that already holds a forward to the same remote included.
C23_SetForwardCreatesEntry ==
    (call.op = "set_forward" /\ call.raised = "None") => ReturnedPairIsLive

\* the part of C23 that the code keeps: the entry is there when the list held
\* no forward to that remote before the call
SetForwardKeeps ==
    (call.op = "set_forward" /\ call.raised = "None"
        /\ \A i \in 1..Len(call.before) : call.before[i].remote # call.remote)
    => ReturnedPairIsLive

\* set_forward returned a pair although the list already held that remote
SetForwardOnHeldRemote ==
    /\ call.op = "set_forward" /\ call.raised = "None"
    /\ \E i \in 1..Len(call.before) : call.before[i].remote = call.remote

-----------------------------------------------------------------------------
(* get_forward_port: two `forward --list` queries, other parties in between *)

\* the remote argument of get_forward_port, without its prefix
RemoteArgs == {"minicap", "minitouch"}

\* get_forward_port up to its first query: _local_in_forwards(remote=
\* 'localabstract:%s' % remote), and `return None` when nothing matches
get_forward_port_index(fw, remote) ==
    LET index == _local_in_forwards(fw, NoneV, "localabstract:" \o remote)
    IN  [op |-> "get_forward_port", pc |-> IF index.is_use THEN "looked" ELSE "done",
         remote |-> "localabstract:" \o remote, index |-> index.index,
         seen |-> get_forwards(fw), raised |-> "None", value |-> <<>>,
         entry |-> [local |-> NoneV, remote |-> NoneV]]

\* its return statement: the second query, subscripted with the index of the
\* first; st is the call so far, l what get_forwards returns now; value is
\* <<>> for None and <<port>> for a port
get_forward_port_read(st, l) ==
    IF ~PyInRange(l, st.index)
    THEN [st EXCEPT !.pc = "done", !.raised = "IndexError", !.seen = l]
    ELSE IF PortOf(PyAt(l, st.index).local) = NoMatch
    THEN [st EXCEPT !.pc = "done", !.raised = "IndexError", !.seen = l]
    ELSE [st EXCEPT !.pc = "done", !.value = <<PortOf(PyAt(l, st.index).local)>>,
                    !.entry = PyAt(l, st.index),
                    !.seen = IF l = st.seen THEN l ELSE <<>>]

InPortQuery == ret.op = "get_forward_port" /\ ret.pc = "looked"

LookupForwardPort ==
    /\ ~InPortQuery
    /\ \E remote \in RemoteArgs : ret' = get_forward_port_index(live, remote)
    /\ call' = IdleCall /\ prev' = Brief(IdleCall)
    /\ UNCHANGED <<live, cache, run, sh, cap, os_environ, files, rp, rot, dep>>

ReadForwardPort ==
    /\ InPortQuery
    /\ ret' = get_forward_port_read(ret, get_forwards(live))
    /\ UNCHANGED base
    /\ UNCHANGED <<os_environ, files, rp, rot, dep>>

NextPortQuery == LookupForwardPort \/ OtherParty \/ ReadForwardPort

SpecPortQuery == InitForward /\ [][NextPortQuery]_vars

PortQueryDone == ret.op = "get_forward_port" /\ ret.pc = "done"

\* C24: get_forward_port(remote) returns None or the local port of a forward
\* whose remote is localabstract:<remote>, also when another process adds or
\* removes forwards between its two `forward --list` queries: never the port
\* of a forward to another remote, never an index out of range.
C24_PortOfAskedRemote ==
    PortQueryDone =>
        /\ ret.raised # "IndexError"
        /\ ret.value # <<>> => ret.entry.remote = ret.remote

\* the part of C24 that the code keeps: when both queries saw the same list,
\* the port is that of a forward to the remote asked for
PortQueryKeeps ==
    (PortQueryDone /\ ret.value # <<>> /\ ret.seen # <<>>) =>
        /\ ret.raised = "None"
        /\ ret.entry.remote = ret.remote
        /\ TcpName(ret.value[1]) = ret.entry.local

\* a call returned the port of a forward to another remote
PortOfOtherRemote ==
    PortQueryDone /\ ret.value # <<>> /\ ret.entry.remote # ret.remote

-----------------------------------------------------------------------------
(* Two devices on one bridge endpoint: the handle of device_id beside the
   forwards of the other serial *)

NextPerDevice == Forward \/ LookupForwardPort \/ ReadForwardPort

SpecPerDevice == InitForward /\ [][NextPerDevice]_vars

\* the entries of fw that belong to the handle's device
OwnForwards(fw) == SelectSeq(fw, LAMBDA e : e.serial = device_id)

\* forward(L, R) was called while the device of the handle had no forward with
\* L or with R and no device was listening on L
ForwardNewToDevice ==
    /\ call.op = "forward" /\ call.raised = "None"
    /\ ~HasLocal(call.before, call.local)
    /\ \A i \in 1..Len(OwnForwards(call.before)) :
           OwnForwards(call.before)[i].remote # call.remote

\* C25: with two serials A and B on one bridge endpoint, the forward
\* operations of the handle for A depend only on A's forwards: forward(L, R)
\* on A creates the mapping for A even when B already has a forward with
\* remote R, and get_forward_port(R) on A never returns a port that forwards
\* to B.
C25_ForwardsArePerDevice ==
    /\ ForwardNewToDevice =>
           \E i \in 1..Len(live) :
               live[i] = [serial |-> device_id, local |-> call.local,
                          remote |-> call.remote]
    /\ (PortQueryDone /\ ret.value # <<>>) =>
           \A i \in 1..Len(live) :
               live[i].local = TcpName(ret.value[1]) => live[i].serial = device_id

\* the part of C25 that the code keeps: on an endpoint where the other device
\* has no forward, forward creates the mapping and the port is the device's own
PerDeviceKeeps ==
    /\ (ForwardNewToDevice /\ OwnForwards(call.before) = call.before) =>
           \E i \in 1..Len(live) :
               live[i] = [serial |-> device_id, local |-> call.local,
                          remote |-> call.remote]
    /\ (PortQueryDone /\ ret.value # <<>> /\ OwnForwards(live) = live) =>
           \E i \in 1..Len(live) :
               live[i].local = TcpName(ret.value[1]) /\ live[i].serial = device_id

\* forward returned without creating the mapping, the other device holding
\* the remote
ForwardSkippedForOtherDevice ==
    /\ ForwardNewToDevice
    /\ \E i \in 1..Len(call.before) :
           call.before[i].serial # device_id /\ call.before[i].remote = call.remote
    /\ live = call.before

-----------------------------------------------------------------------------
(* connect(force) of the core client *)

\* the state get-state prints for a device that is online
StateDevice == <<"d", "e", "v", "i", "c", "e">>

\* the word connect compares the state with
StateCompared == <<"d", "e", "v", "i", "c", "e", "s">>

\* `self.get_status() != 'devices'` for what get_status returned
StatusDiffers(status) == status.isNone \/ status.value # StateCompared

\* _ADB.connect on the handle of serial: the argvs it issues; get_status is
\* called only for a serial with ':' and force false. child is the get-state
\* child, connectOk whether the bridge's connect succeeds
connect(serial, force, child, connectOk) ==
    LET status == get_status(child)
        argv == start_cmd_of([device_id |-> serial, cmd_options |-> cmd_options],
                             <<"connect", serial>>, FALSE).argv
        issue == [raised |-> IF connectOk THEN "None" ELSE "AdbError",
                  asked |-> ~force, issued |-> <<argv>>]
    IN  IF ~(Truthy(serial) /\ HasColon(serial))
        THEN [raised |-> "None", asked |-> FALSE, issued |-> <<>>]
        ELSE IF force THEN issue
        ELSE IF status.raised # "None"
        THEN [raised |-> status.raised, asked |-> TRUE, issued |-> <<>>]
        ELSE IF StatusDiffers(status) THEN issue
        ELSE [raised |-> "None", asked |-> TRUE, issued |-> <<>>]

InitConnect == BaseIdle /\ LaterIdle

\* one call connect(force)
Connect ==
    \E serial \in HandleSerials, force \in BOOLEAN, connectOk \in BOOLEAN,
       returncode \in StatusCodes, stdout \in StatusOutputs, stderr \in StatusErrors :
        LET child == [returncode |-> returncode, stdout |-> stdout, stderr |-> stderr]
            res == connect(serial, force, child, connectOk)
        IN  /\ ret' = [op |-> "connect", serial |-> serial, force |-> force,
                       asked |-> res.asked,
                       child |-> IF res.asked THEN child
                                 ELSE [returncode |-> 0, stdout |-> <<>>, stderr |-> <<>>],
                       status |-> IF res.asked THEN get_status(child)
                                  ELSE StatusResult("None", TRUE, <<>>, NoStatusErr),
                       raised |-> res.raised, issued |-> res.issued]
            /\ UNCHANGED base
            /\ UNCHANGED <<os_environ, files, rp, rot, dep>>

NextConnect == Connect

SpecConnect == InitConnect /\ [][NextConnect]_vars

\* connect(force=False) was called on a serial with ':' and get_status returned
ConnectAskedStatus ==
    /\ ret.op = "connect" /\ HasColon(ret.serial) /\ ~ret.force
    /\ ret.asked /\ ret.status.raised = "None"

\* get_status reported the device as online
ReportedOnline == ~ret.status.isNone /\ ret.status.value = StateDevice

\* C26: connect(force=False) on a handle whose serial contains ':' issues the
\* bridge `connect` command if and only if get_status does not report the
\* device as already online (state 'device'); for a device already online no
\* `connect` is issued.
C26_ConnectOnlyWhenNotOnline ==
    ConnectAskedStatus => (ret.issued # <<>> <=> ~ReportedOnline)

\* the part of C26 that the code keeps: whenever get_status returns, whatever
\* it returns, the `connect` command is issued, to the serial of the handle
\* and without -s
ConnectKeeps ==
    ConnectAskedStatus =>
        ret.issued = <<cmd_options \o <<"connect", ret.serial>>>>

\* connect was issued for a device that get_status reported online
ConnectedWhileOnline ==
    ConnectAskedStatus /\ ReportedOnline /\ ret.issued # <<>>

-----------------------------------------------------------------------------
(* The facade's touch calls: down, up, sleep, click *)

\* the most facade touch calls followed on one facade
MaxCalls == 2

TouchCalls == {"down", "up", "sleep", "click"}

\* the backend objects Android.__init__ constructs
Constructed(touch_method, cap_method) ==
    {"javacap", "adbcap", "maxtouch", "EVENTTOUCH"}
        \cup (IF touch_method = "minitouch" THEN {"minitouch"} ELSE {})
        \cup (IF cap_method = "minicap" THEN {"minicap"} ELSE {})

\* the if/elif chain of Android.down, up, sleep and click: the attribute the
\* call is forwarded to, NoneV when no branch is taken and the method returns
TouchBranch(name, touch_method) ==
    IF touch_method = "minitouch" THEN "minitouch"
    ELSE IF name = "click" /\ touch_method = "maxtouch" THEN "maxtouch"
    ELSE IF touch_method = "adbtouch" THEN "EVENTTOUCH"
    ELSE NoneV

\* the facade after Android.__init__
NewAndroid(touch_method, android10, cap_method) ==
    [op |-> "Android", asked |-> touch_method,
     touch_method |-> SelectTouch(touch_method, android10),
     cap_method |-> cap_method,
     constructed |-> Constructed(SelectTouch(touch_method, android10), cap_method),
     calls |-> <<>>, reached |-> <<>>, raised |-> "None"]

\* one facade touch call on facade st: forwarded to the attribute of its
\* branch; an attribute that was never set raises AttributeError
TouchCall(st, name) ==
    LET to == TouchBranch(name, st.touch_method)
        n == Len(st.calls) + 1
    IN  IF to = NoneV THEN [st EXCEPT !.calls = Append(@, name)]
        ELSE IF to \notin st.constructed
        THEN [st EXCEPT !.calls = Append(@, name), !.raised = "AttributeError"]
        ELSE [st EXCEPT !.calls = Append(@, name),
                        !.reached = Append(@, [to |-> to, name |-> name, call |-> n])]

InitTouch == BaseIdle /\ LaterIdle

Build ==
    /\ ret = IdleRet
    /\ \E touch_method \in TouchMethods, android10 \in BOOLEAN, cap_method \in CapMethods :
           ret' = NewAndroid(touch_method, android10, cap_method)
    /\ UNCHANGED base
    /\ UNCHANGED <<os_environ, files, rp, rot, dep>>

Touch ==
    /\ ret # IdleRet
    /\ Len(ret.calls) < MaxCalls
    /\ \E name \in TouchCalls : ret' = TouchCall(ret, name)
    /\ UNCHANGED base
    /\ UNCHANGED <<os_environ, files, rp, rot, dep>>

NextTouch == Build \/ Touch

SpecTouch == InitTouch /\ [][NextTouch]_vars

\* the backend calls that facade call number n was forwarded as
ForwardedAs(n) == {i \in 1..Len(ret.reached) : ret.reached[i].call = n}

\* C27: for every touch method the facade can end up with after construction
\* (minitouch, maxtouch after the Android 10 substitution, adb event touch),
\* each of down, up, sleep and click is forwarded to the selected backend
\* object exactly once per call: no call is silently dropped and none reaches
\* a backend that was not constructed.
C27_TouchCallsForwardedOnce ==
    ret # IdleRet =>
        /\ ret.raised = "None"
        /\ \A n \in 1..Len(ret.calls) :
               /\ Cardinality(ForwardedAs(n)) = 1
               /\ \A i \in ForwardedAs(n) :
                      /\ ret.reached[i].to = _get_touch_method(ret.touch_method)
                      /\ ret.reached[i].name = ret.calls[n]
                      /\ ret.reached[i].to \in ret.constructed

\* the part of C27 that the code keeps: click is forwarded once for every
\* method, down, up and sleep for minitouch and adb event touch, and always to
\* the selected backend, which was constructed
TouchKeeps ==
    ret # IdleRet =>
        /\ ret.raised = "None"
        /\ \A n \in 1..Len(ret.calls) :
               /\ (ret.calls[n] = "click" \/ ret.touch_method # "maxtouch")
                      => Cardinality(ForwardedAs(n)) = 1
               /\ \A i \in ForwardedAs(n) :
                      /\ ret.reached[i].to = _get_touch_method(ret.touch_method)
                      /\ ret.reached[i].name = ret.calls[n]
                      /\ ret.reached[i].to \in ret.constructed

\* a down, up or sleep on a facade that selected maxtouch reached no backend
TouchDropped ==
    /\ ret # IdleRet /\ ret.touch_method = "maxtouch" /\ ret.asked = "minitouch"
    /\ \E n \in 1..Len(ret.calls) : ret.calls[n] # "click" /\ ForwardedAs(n) = {}

=============================================================================
